---------------------------- MODULE Spec2Model ----------------------------
(***************************************************************************)
(* Model of the monomial engine of the inflation package:                  *)
(*   - InflationSDP (src/causalinflation/quantum/InflationSDP.py)          *)
(*   - InflationLP  (src/inflation/lp/InflationLP.py)                      *)
(* An operator is the fixed-width integer tuple the code uses,             *)
(*   <<party, copy_1, ..., copy_NS, setting, outcome>>,                    *)
(* a monomial is a sequence of operators (SDP) or a set of operator ranks  *)
(* (LP).  Helpers imported by the two classes from modules that are not    *)
(* part of the source tree (fast_npa, general_tools, monomial_classes,     *)
(* InflationProblem) are modelled from the specification and are marked    *)
(* so in the map of definitions.                                           *)
(***************************************************************************)
EXTENDS Integers, Sequences, FiniteSets, TLC

VARIABLES
    commuting,    \* InflationSDP.commuting
    \* --- rewriting of one monomial (canonicaliser, sanitiser) ---
    rwScn,        \* scenario the monomial belongs to
    start,        \* the monomial given as input
    mon,          \* the monomial after the rewrite steps taken so far
    sanitised,    \* result of _sanitise_monomial(start)
    \* --- build_columns ---
    colScn,                 \* scenario of the InflationSDP object
    column_specification,   \* argument of build_columns
    blk,                    \* _build_cols_from_specs: index of the current block
    prod,                   \* index of the current product within the block
    res,                    \* _build_cols_from_specs: res
    allvars,                \* _build_cols_from_specs: allvars
    columns,                \* value returned by build_columns
    \* --- generate_relaxation: moment matrix and symmetries ---
    symScn,                 \* scenario of the InflationSDP object
    generating_monomials,   \* the columns of the moment matrix
    momentmatrix,           \* unsymmetrised moment matrix (ids of the entries)
    canonical_mon_to_idx,   \* calculate_momentmatrix: keys in order of their ids, from 2
    entry,                  \* calculate_momentmatrix: the entry <<i, j>> to fill next
    inflation_symmetries,   \* the permutations of the columns
    next_perm,              \* _apply_inflation_symmetries: next permutation to apply
    symmetric_arr,          \* _apply_inflation_symmetries: symmetric_arr
    orbits,                 \* _apply_inflation_symmetries: orbits
    sym_phase,              \* position within generate_relaxation
    \* --- one engine object: alphabet, registry of monomials, LP columns ---
    engine,                 \* "SDP" (InflationSDP) or "LP" (InflationLP)
    engJob,                 \* the arguments of the constructor
    operators,              \* SDP: the operators of self.measurements; LP: self._lexorder
    registry,               \* the interned objects and the caches that hold them
    Zero,                   \* InflationSDP.Zero (the LP has none)
    One,                    \* self.One
    monomials,              \* SDP: list_of_monomials; LP: self.monomials
    generated,              \* generate_relaxation / _generate_lp has run
    raw_monomials_as_lexboolvecs,   \* LP: _raw_monomials_as_lexboolvecs
    inverse_of_raw,         \* LP: self.inverse
    monomials_as_lexboolvecs,       \* LP: _monomials_as_lexboolvecs, the columns
    lexorder_syms,          \* LP: self.lexorder_symmetries
    nr_calls,               \* requests made to the registry so far
    returned_atoms,         \* the atomic arrays requested and the object returned
    equalities,             \* LP: minimal_sparse_equalities
    \* --- InflationLP.minimal_sparse_inequalities, one event at a time ---
    ineqJob,                \* the arguments of the constructor
    ineq_columns,           \* the raw columns and self.inverse of that program
    non_CG,                 \* _monomials_as_lexboolvecs_non_CG
    nof_inequalities,       \* nof_inequalities
    inequalities,           \* the rows made so far: event and (column, sign) terms
    \* --- the values, bounds, objective and solution of one engine object ---
    valJob,                 \* the engine and the arguments of its constructor
    known_moments,          \* self.known_moments
    known_moments_name_dict,    \* SDP: self.known_moments_name_dict, keyed by monomial
    semiknown_moments,      \* self.semiknown_moments
    moment_lowerbounds,     \* self.moment_lowerbounds
    moment_upperbounds,     \* self.moment_upperbounds
    processed_moment_lowerbounds,   \* SDP: self._processed_moment_lowerbounds
    objective,              \* self.objective
    processed_objective,    \* SDP: self._processed_objective, when it exists
    maximize,               \* self.maximize
    use_lpi_constraints,    \* self.use_lpi_constraints
    status,                 \* self.status
    primal_objective,       \* self.primal_objective, when it exists
    objective_value,        \* self.objective_value, when it exists
    objective_as_name_dict, \* SDP: self._objective_as_name_dict, keyed by monomial
    extra_equalities,       \* LP: self.extra_equalities
    extra_inequalities,     \* LP: self.extra_inequalities
    last_call,              \* the last method called and what it raised
    \* --- _apply_inflation_symmetries on a given matrix and list of permutations ---
    orbit_loop,             \* the loop over orbits: position, key, val, previous, changed
    orbit_result            \* np.unique(orbits), the assertion, unsym_idx_to_sym_idx

rwVars == <<rwScn, start, mon, sanitised>>

colVars == <<colScn, column_specification, blk, prod, res, allvars, columns>>

symVars == <<symScn, generating_monomials, momentmatrix, canonical_mon_to_idx, entry,
             inflation_symmetries, next_perm, symmetric_arr, orbits, sym_phase>>

engVars == <<engine, engJob, operators, registry, Zero, One, monomials, generated,
             raw_monomials_as_lexboolvecs, inverse_of_raw, monomials_as_lexboolvecs,
             lexorder_syms, nr_calls, returned_atoms, equalities>>

ineqVars == <<ineqJob, ineq_columns, non_CG, nof_inequalities, inequalities>>

valVars == <<valJob, known_moments, known_moments_name_dict, semiknown_moments, moment_lowerbounds,
             moment_upperbounds, processed_moment_lowerbounds, objective,
             processed_objective, maximize, use_lpi_constraints, status,
             primal_objective, objective_value, objective_as_name_dict, extra_equalities,
             extra_inequalities, last_call>>

orbVars == <<orbit_loop, orbit_result>>

vars == <<commuting, rwVars, colVars, symVars, engVars, ineqVars, valVars, orbVars>>

\* values of the variables of a part of the program that a specification
\* does not exercise
IdleRw ==
    /\ rwScn = "none"
    /\ start = <<>>
    /\ mon = <<>>
    /\ sanitised = [called |-> FALSE, is_Zero |-> FALSE, array |-> <<>>]

IdleCol ==
    /\ colScn = "none"
    /\ column_specification = [style |-> "none"]
    /\ blk = 0
    /\ prod = 0
    /\ res = <<>>
    /\ allvars = {}
    /\ columns = [returned |-> FALSE, cols |-> <<>>, raised |-> ""]

IdleSym ==
    /\ symScn = "none"
    /\ generating_monomials = <<>>
    /\ momentmatrix = <<>>
    /\ canonical_mon_to_idx = <<>>
    /\ entry = <<0, 0>>
    /\ inflation_symmetries = <<>>
    /\ next_perm = 0
    /\ symmetric_arr = <<>>
    /\ orbits = <<>>
    /\ sym_phase = "none"

IdleEng ==
    /\ engine = "none"
    /\ engJob = [problem |-> "none"]
    /\ operators = <<>>
    /\ registry = <<>>
    /\ Zero = 0
    /\ One = 0
    /\ monomials = <<>>
    /\ generated = FALSE
    /\ raw_monomials_as_lexboolvecs = <<>>
    /\ inverse_of_raw = <<>>
    /\ monomials_as_lexboolvecs = <<>>
    /\ lexorder_syms = {}
    /\ nr_calls = 0
    /\ returned_atoms = {}
    /\ equalities = [computed |-> FALSE, rows |-> <<>>]

IdleIneq ==
    /\ ineqJob = [problem |-> "none"]
    /\ ineq_columns = <<>>
    /\ non_CG = <<>>
    /\ nof_inequalities = 0
    /\ inequalities = <<>>

IdleVal ==
    /\ valJob = [engine |-> "none"]
    /\ known_moments = <<>>
    /\ known_moments_name_dict = <<>>
    /\ semiknown_moments = <<>>
    /\ moment_lowerbounds = <<>>
    /\ moment_upperbounds = <<>>
    /\ processed_moment_lowerbounds = <<>>
    /\ objective = <<>>
    /\ processed_objective = <<>>
    /\ maximize = TRUE
    /\ use_lpi_constraints = FALSE
    /\ status = ""
    /\ primal_objective = <<>>
    /\ objective_value = <<>>
    /\ objective_as_name_dict = <<>>
    /\ extra_equalities = <<>>
    /\ extra_inequalities = <<>>
    /\ last_call = [op |-> "none"]

IdleOrb ==
    /\ orbit_loop = [at |-> "none"]
    /\ orbit_result = [raised |-> ""]

notRw == <<colVars, symVars, engVars, ineqVars, valVars, orbVars>>

notCol == <<rwVars, symVars, engVars, ineqVars, valVars, orbVars>>

notSym == <<rwVars, colVars, engVars, ineqVars, valVars, orbVars>>

notEng == <<rwVars, colVars, symVars, ineqVars, valVars, orbVars>>

notIneq == <<rwVars, colVars, symVars, engVars, valVars, orbVars>>

notVal == <<rwVars, colVars, symVars, engVars, ineqVars, orbVars>>

IdleNotRw == IdleCol /\ IdleSym /\ IdleEng /\ IdleIneq /\ IdleVal /\ IdleOrb

IdleNotCol == IdleRw /\ IdleSym /\ IdleEng /\ IdleIneq /\ IdleVal /\ IdleOrb

IdleNotSym == IdleRw /\ IdleCol /\ IdleEng /\ IdleIneq /\ IdleVal /\ IdleOrb

IdleNotEng == IdleRw /\ IdleCol /\ IdleSym /\ IdleIneq /\ IdleVal /\ IdleOrb

IdleNotIneq == IdleRw /\ IdleCol /\ IdleSym /\ IdleEng /\ IdleVal /\ IdleOrb

IdleNotVal == IdleRw /\ IdleCol /\ IdleSym /\ IdleEng /\ IdleIneq /\ IdleOrb

-----------------------------------------------------------------------------
(* Bounds of the model *)

\* longest monomial given to the canonicaliser / sanitiser
MaxLen == 3

\* longest monomial in a list of raw arrays or symbols given to build_columns
MaxRawLen == 2

-----------------------------------------------------------------------------
(* Generic helpers *)

RECURSIVE FlattenSeq(_)
FlattenSeq(ss) == IF ss = <<>> THEN <<>> ELSE Head(ss) \o FlattenSeq(Tail(ss))

Range(s) == {s[i] : i \in DOMAIN s}

\* lexicographic comparison of two integer tuples of the same width
\* (np.lexsort(np.rot90(arr)): first column is the primary key)
LexLess(a, b) ==
    \E i \in 1..Len(a) : a[i] < b[i] /\ \A j \in 1..(i - 1) : a[j] = b[j]

\* shortlex comparison of two sequences of tuples
RECURSIVE SeqLexLess(_, _)
SeqLexLess(s, t) ==
    IF s = <<>> THEN t # <<>>
    ELSE IF t = <<>> THEN FALSE
    ELSE IF Head(s) = Head(t) THEN SeqLexLess(Tail(s), Tail(t))
    ELSE LexLess(Head(s), Head(t))

RemoveAt(s, i) == SubSeq(s, 1, i - 1) \o SubSeq(s, i + 1, Len(s))

SwapAt(s, i) ==
    [k \in 1..Len(s) |-> IF k = i THEN s[i + 1] ELSE IF k = i + 1 THEN s[i] ELSE s[k]]

-----------------------------------------------------------------------------
(* Scenarios (InflationProblem instances handed to the constructors) *)

\* bilocality scenario of the tests: sources h1 -> v1,v2 and h2 -> v2,v3
Bilocal ==
    [hypergraph |-> << <<1, 1, 0>>, <<0, 1, 1>> >>,
     inflation_levels |-> <<2, 2>>,
     settings |-> <<1, 1, 1>>,
     outcomes |-> <<2, 2, 2>>]

\* one party, two settings, two outcomes, no inflation (test_generate_with_identities)
OneParty ==
    [hypergraph |-> << <<1>> >>,
     inflation_levels |-> <<1>>,
     settings |-> <<2>>,
     outcomes |-> <<2>>]

\* the Bell scenario of test_CHSH: one source, two parties with two settings
\* and two outcomes each, inflation level 1
CHSH ==
    [hypergraph |-> << <<1, 1>> >>,
     inflation_levels |-> <<1>>,
     settings |-> <<2, 2>>,
     outcomes |-> <<2, 2>>]

\* one party fed by two sources, both with inflation level 3
\* (a party of the triangle scenario of test_lpi_bounds)
TwoSources3 ==
    [hypergraph |-> << <<1>>, <<1>> >>,
     inflation_levels |-> <<3, 3>>,
     settings |-> <<1>>,
     outcomes |-> <<2>>]

\* two sources of inflation level 2; the first party is fed by both and has
\* three outcomes, the second is fed by the second source and has two settings
Mixed2 ==
    [hypergraph |-> << <<1, 0>>, <<1, 1>> >>,
     inflation_levels |-> <<2, 2>>,
     settings |-> <<1, 2>>,
     outcomes |-> <<3, 2>>]

\* one party with two settings and two outcomes, fed by one source of
\* inflation level 2
TwoCopies ==
    [hypergraph |-> << <<1>> >>,
     inflation_levels |-> <<2>>,
     settings |-> <<2>>,
     outcomes |-> <<2>>]

nr_sources(scn) == Len(scn.hypergraph)
nr_parties(scn) == Len(scn.settings)
nr_properties(scn) == 1 + nr_sources(scn) + 2


-----------------------------------------------------------------------------
(* Operator alphabet: InflationSDP.__init__ and _generate_parties *)

\* outcome cardinalities used by the SDP engine
outcome_cardinalities(scn, supports_problem) ==
    [p \in 1..nr_parties(scn) |->
        IF supports_problem THEN scn.outcomes[p] + 1 ELSE scn.outcomes[p]]

\* all copy-index vectors of a party, sources s..NS, in itertools.product order;
\* a source that does not feed the party contributes the index 0
RECURSIVE all_indices(_, _, _)
all_indices(scn, p, s) ==
    IF s > nr_sources(scn) THEN << <<>> >>
    ELSE LET rest == all_indices(scn, p, s + 1)
             with(c) == [i \in 1..Len(rest) |-> <<c>> \o rest[i]]
         IN  IF scn.hypergraph[s][p] = 0 THEN with(0)
             ELSE FlattenSeq([c \in 1..scn.inflation_levels[s] |-> with(c)])

\* the operators of one party, flattened in the order copies, setting, outcome;
\* outcomes 0 .. outs - 2 (Collins-Gisin: the last one is left out)
party_meas(scn, supports_problem, p) ==
    LET copies == all_indices(scn, p, 1)
        ins    == scn.settings[p]
        outs   == outcome_cardinalities(scn, supports_problem)[p]
        ofCopy(c) == FlattenSeq([x \in 1..ins |->
                        [a \in 1..(outs - 1) |-> <<p>> \o c \o <<x - 1, a - 1>>]])
    IN  FlattenSeq([i \in 1..Len(copies) |-> ofCopy(copies[i])])

measurements(scn, supports_problem) ==
    [p \in 1..nr_parties(scn) |-> party_meas(scn, supports_problem, p)]

\* default lexicographic order: the operators sorted as integer rows
default_lexorder(scn, supports_problem) ==
    SortSeq(FlattenSeq(measurements(scn, supports_problem)), LexLess)

\* rank of an operator in a lexorder
nb_mon_to_lexrepr(lexorder, op) == CHOOSE r \in 1..Len(lexorder) : lexorder[r] = op

identity_operator == <<>>

zero_operator(width) == << [i \in 1..width |-> 0] >>

-----------------------------------------------------------------------------
(* Commutation oracle *)

party_of(op)   == op[1]
copies_of(op)  == SubSeq(op, 2, Len(op) - 2)
setting_of(op) == op[Len(op) - 1]
outcome_of(op) == op[Len(op)]

\* the rule stated in the specification: same party and equal on every copy index
\* of the sources both consume is the only way not to commute
notcomm_disagree_on_one(a, b) ==
    /\ a # b
    /\ party_of(a) = party_of(b)
    /\ copies_of(a) = copies_of(b)

\* notcomm_from_lexorder, entry for the operators a and b.  The body of the
\* function is not in the source tree; the rule is the one the expected columns
\* of the bilocality test and the docstring of generate_relaxation fix: two
\* operators of one party do not commute as soon as they share a copy of a source.
notcomm(a, b) ==
    /\ a # b
    /\ party_of(a) = party_of(b)
    /\ \E s \in 1..Len(copies_of(a)) :
          copies_of(a)[s] # 0 /\ copies_of(a)[s] = copies_of(b)[s]

-----------------------------------------------------------------------------
(* Canonicaliser: the three local rewrite rules *)

\* same (party, copies, setting), different outcome
orthogonal(a, b) ==
    /\ SubSeq(a, 1, Len(a) - 1) = SubSeq(b, 1, Len(b) - 1)
    /\ outcome_of(a) # outcome_of(b)

is_zero_array(m) == Len(m) = 1 /\ \A i \in 1..Len(m[1]) : m[1][i] = 0

can_annihilate(m, i) == i < Len(m) /\ orthogonal(m[i], m[i + 1])

can_collapse(m, i) == i < Len(m) /\ m[i] = m[i + 1]

can_swap(m, i, comm) ==
    /\ i < Len(m)
    /\ comm \/ ~notcomm(m[i], m[i + 1])
    /\ LexLess(m[i + 1], m[i])

\* mon_is_zero: an all-zero array, or two adjacent orthogonal projectors
mon_is_zero(m) ==
    \/ is_zero_array(m)
    \/ \E i \in 1..Len(m) : can_annihilate(m, i)

\* mon_lexsorted: the operators sorted by rank
mon_lexsorted(m) == SortSeq(m, LexLess)

\* remove_projector_squares: adjacent equal operators collapse to one
RECURSIVE remove_projector_squares(_)
remove_projector_squares(m) ==
    IF Len(m) <= 1 THEN m
    ELSE IF m[1] = m[2] THEN remove_projector_squares(Tail(m))
    ELSE <<m[1]>> \o remove_projector_squares(Tail(m))

\* commutation sort: the leftmost adjacent pair that commutes and is out of
\* order is swapped, until there is none
RECURSIVE commutation_sort(_)
commutation_sort(m) ==
    IF \E i \in 1..Len(m) : can_swap(m, i, FALSE)
    THEN LET i == CHOOSE k \in 1..Len(m) :
                     /\ can_swap(m, k, FALSE)
                     /\ \A j \in 1..(k - 1) : ~can_swap(m, j, FALSE)
         IN  commutation_sort(SwapAt(m, i))
    ELSE m

\* to_canonical(mon, notcomm, lexorder): commutation sort, idempotence,
\* orthogonality; the zero monomial comes back as one all-zero row
to_canonical(m) ==
    IF Len(m) <= 1 THEN m
    ELSE LET c == remove_projector_squares(commutation_sort(m))
         IN  IF mon_is_zero(c) THEN zero_operator(Len(m[1])) ELSE c


-----------------------------------------------------------------------------
(* Canonical form used when the generating columns are built, and sanitiser *)

\* the canonical form of a product when the commuting branch is never taken
column_canon_ignoring_commuting(m, comm) ==
    [is_scalar_zero |-> FALSE, array |-> to_canonical(m)]

\* a sanitiser that hands every canonical array to self.Monomial
sanitise_array_without_zero_check(m) ==
    [called |-> TRUE, is_Zero |-> FALSE, array |-> to_canonical(m)]

\* _build_cols_from_specs, the canonical form of one product of operators:
\* is_scalar_zero is "canon = 0" of the commuting branch
column_canon(m, comm) ==
    IF comm
    THEN LET c == remove_projector_squares(mon_lexsorted(m))
         IN  IF mon_is_zero(c)
             THEN [is_scalar_zero |-> TRUE, array |-> zero_operator(Len(m[1]))]
             ELSE [is_scalar_zero |-> FALSE, array |-> c]
    ELSE [is_scalar_zero |-> FALSE, array |-> to_canonical(m)]

\* a test that keeps every product whose canonical form is not 0
column_kept_when_not_zero(m, comm) == ~column_canon(m, comm).is_scalar_zero

\* _build_cols_from_specs: the product is a candidate column iff its canonical
\* form is not 0 and is as long as the product
column_kept(m, comm) ==
    LET canon == column_canon(m, comm)
    IN  ~canon.is_scalar_zero /\ Len(canon.array) = Len(m)

\* _sanitise_monomial on a 2d array: is_Zero says self.Zero is returned,
\* otherwise self.Monomial(array) is
sanitise_array(m) ==
    LET canon == to_canonical(m)
    IN  IF mon_is_zero(canon)
        THEN [called |-> TRUE, is_Zero |-> TRUE, array |-> canon]
        ELSE [called |-> TRUE, is_Zero |-> FALSE, array |-> canon]

-----------------------------------------------------------------------------
(* Specification SpecRewrite: one monomial, rewritten rule by rule in any    *)
(* order, and handed to the sanitiser                                        *)

RewriteScenarios == {"TwoSources3", "Mixed2"}

scenario_of(name) ==
    CASE name = "TwoSources3" -> TwoSources3
      [] name = "Mixed2"      -> Mixed2
      [] name = "Bilocal"     -> Bilocal
      [] name = "OneParty"    -> OneParty
      [] name = "CHSH"        -> CHSH
      [] name = "TwoCopies"   -> TwoCopies

TwoSources3Ops == Range(default_lexorder(TwoSources3, FALSE))
Mixed2Ops == Range(default_lexorder(Mixed2, FALSE))

alphabet_of(name) ==
    CASE name = "TwoSources3" -> TwoSources3Ops
      [] name = "Mixed2"      -> Mixed2Ops

Words(ops, n) == UNION {[1..k -> ops] : k \in 0..n}

InitRewrite ==
    /\ rwScn \in RewriteScenarios
    /\ commuting \in BOOLEAN
    /\ start \in Words(alphabet_of(rwScn), MaxLen)
    /\ mon = start
    /\ sanitised = [called |-> FALSE, is_Zero |-> FALSE, array |-> <<>>]
    /\ IdleNotRw

\* rule 1: two adjacent orthogonal operators reduce the monomial to zero
RuleOrthogonality ==
    /\ \E i \in 1..Len(mon) : can_annihilate(mon, i)
    /\ mon' = zero_operator(Len(mon[1]))
    /\ UNCHANGED <<commuting, rwScn, start, sanitised, notRw>>

\* rule 2: two adjacent identical operators collapse to one
RuleIdempotence ==
    /\ \E i \in 1..Len(mon) :
          /\ can_collapse(mon, i)
          /\ mon' = RemoveAt(mon, i)
    /\ UNCHANGED <<commuting, rwScn, start, sanitised, notRw>>

\* rule 3: two adjacent commuting operators out of rank order are swapped
RuleSwap ==
    /\ \E i \in 1..Len(mon) :
          /\ can_swap(mon, i, commuting)
          /\ mon' = SwapAt(mon, i)
    /\ UNCHANGED <<commuting, rwScn, start, sanitised, notRw>>

SanitiseMonomial ==
    /\ ~sanitised.called
    /\ Len(start) > 0
    /\ sanitised' = sanitise_array(start)
    /\ UNCHANGED <<commuting, rwScn, start, mon, notRw>>

NextRewrite ==
    \/ RuleOrthogonality
    \/ RuleIdempotence
    \/ RuleSwap
    \/ SanitiseMonomial

SpecRewrite == InitRewrite /\ [][NextRewrite]_vars

\* no rewrite rule applies to mon
Terminal ==
    \A i \in 1..Len(mon) :
        ~can_annihilate(mon, i) /\ ~can_collapse(mon, i) /\ ~can_swap(mon, i, commuting)

\* every source of the scenario has inflation level at most 2
LevelsAtMost2 ==
    \A s \in 1..nr_sources(scenario_of(rwScn)) :
        scenario_of(rwScn).inflation_levels[s] <= 2


HasAdjacentOrthogonalPair(m) == \E i \in 1..Len(m) : can_annihilate(m, i)

HasOrthogonalPair(m) == \E i, j \in 1..Len(m) : orthogonal(m[i], m[j])

\* C1 (as stated): in both models, whatever the order in which the three
\* rules are applied, a monomial to which no rule applies any more is the
\* canonical form the code computes for the monomial it started from.
C1_AnyOrderReachesCanonical ==
    Terminal => mon = column_canon(start, commuting).array

\* C1 (amended): the same, in the commuting model and, in the non-commuting
\* model, when no source has an inflation level above 2.
C1_AnyOrderReachesCanonical_UpToLevel2 ==
    (Terminal /\ (commuting \/ LevelsAtMost2))
        => mon = column_canon(start, commuting).array

\* a non-commuting product of three operators that needed a swap and a
\* collapse has reached its two-operator normal form
C1_Witness ==
    /\ Terminal
    /\ ~commuting
    /\ LevelsAtMost2
    /\ Len(start) >= 3
    /\ Len(mon) = 2
    /\ ~is_zero_array(mon)
    /\ mon # remove_projector_squares(start)
    /\ mon = column_canon(start, commuting).array

-----------------------------------------------------------------------------
(* build_columns: names, column specifications, candidate products *)

party_names == <<"A", "B", "C">>

\* to_name: an array as the sequence of its operators' names
to_name(m) == [i \in 1..Len(m) |-> <<party_names[m[i][1]]>> \o Tail(m[i])]

\* to_numbers: the array of a sequence of operator names
to_numbers(nm) ==
    [i \in 1..Len(nm) |->
        <<CHOOSE p \in 1..Len(party_names) : party_names[p] = nm[i][1]>> \o Tail(nm[i])]

\* itertools.product of a sequence of sequences, last factor fastest
RECURSIVE product_seq(_)
product_seq(seqs) ==
    IF seqs = <<>> THEN << <<>> >>
    ELSE LET rest == product_seq(Tail(seqs))
         IN  FlattenSeq([i \in 1..Len(Head(seqs)) |->
                 [j \in 1..Len(rest) |-> <<Head(seqs)[i]>> \o rest[j]]])

RECURSIVE SumSeq(_)
SumSeq(s) == IF s = <<>> THEN 0 ELSE Head(s) + SumSeq(Tail(s))

Reversed(s) == [i \in 1..Len(s) |-> s[Len(s) + 1 - i]]

\* the tuples without a repeated party
IsIncreasing(t) == \A i \in 1..(Len(t) - 1) : t[i] < t[i + 1]

IsNonDecreasing(t) == \A i \in 1..(Len(t) - 1) : t[i] <= t[i + 1]

\* build_columns, 'npaN': the blocks of parties (0-based), by length
npa_col_specs(scn, npa_level) ==
    LET tuples(length) ==
            product_seq([k \in 1..length |-> [p \in 1..nr_parties(scn) |-> p - 1]])
    IN  << <<>> >> \o
        FlattenSeq([length \in 1..npa_level |->
                        SelectSeq(tuples(length), IsNonDecreasing)])

\* build_columns, 'localN': the blocks of parties, by total length
local_col_specs(scn, local_level) ==
    LET max_length == local_level * nr_parties(scn)
        all_pfreq == product_seq([p \in 1..nr_parties(scn) |->
                                     [k \in 1..(local_level + 1) |-> k - 1]])
        short(f) == SumSeq(f) <= max_length
        kept == SelectSeq(all_pfreq, short)
        party_frequencies == [i \in 1..Len(kept) |-> Reversed(kept[i])]
        of_sum(n) == LET has(f) == SumSeq(f) = n
                     IN  SelectSeq(party_frequencies, has)
        sorted == FlattenSeq([n \in 1..(max_length + 1) |-> of_sum(n - 1)])
        lst(pfreq) == FlattenSeq([party \in 1..nr_parties(scn) |->
                                     [k \in 1..pfreq[party] |-> party - 1]])
    IN  [i \in 1..Len(sorted) |-> lst(sorted[i])]

\* the blocks handed to _build_cols_from_specs
col_specs_of(scn, cs) ==
    CASE cs.style = "npa"    -> npa_col_specs(scn, cs.level)
      [] cs.style = "local"  -> local_col_specs(scn, cs.level)
      [] cs.style = "blocks" -> cs.blocks
      [] OTHER               -> <<>>

\* a name test that takes every name for a new one
is_new_name_always(name, seen) == name \notin {}

\* _build_cols_from_specs: "name not in allvars"
is_new_name(name, seen) == name \notin seen

\* _build_cols_from_specs: the products of operators of one block
block_products(scn, block) ==
    product_seq([k \in 1..Len(block) |-> measurements(scn, FALSE)[block[k] + 1]])

\* two operators that hold different copies of every source that feeds them
disjoint_copies(a, b) ==
    \A s \in 1..Len(copies_of(a)) : copies_of(a)[s] # 0 => copies_of(a)[s] # copies_of(b)[s]

\* the operators of a set, sorted as integer rows
RECURSIVE sorted_rows(_)
sorted_rows(S) ==
    IF S = {} THEN <<>>
    ELSE LET least == CHOOSE x \in S : \A y \in S \ {x} : LexLess(x, y)
         IN  <<least>> \o sorted_rows(S \ {least})

\* the monomials of a set, sorted by their rows
RECURSIVE sorted_monomials(_)
sorted_monomials(S) ==
    IF S = {} THEN <<>>
    ELSE LET least == CHOOSE x \in S :
                          \A y \in S \ {x} : LexLess(FlattenSeq(x), FlattenSeq(y))
         IN  <<least>> \o sorted_monomials(S \ {least})

\* phys_mon_1_party_of_given_len: the products of max_monomial_length
\* operators of one party (0-based) with strictly disjoint copies per source
phys_mon_1_party_of_given_len(scn, party, max_monomial_length) ==
    LET ops == Range(measurements(scn, FALSE)[party + 1])
        chosen == {S \in SUBSET ops :
                      /\ Cardinality(S) = max_monomial_length
                      /\ \A a \in S, b \in S : a # b => disjoint_copies(a, b)}
    IN  sorted_monomials({sorted_rows(S) : S \in chosen})

\* build_columns, 'physical' followed by the given digits: the try block;
\* a failed assertion or a missing digit leaves the inflation levels
physmon_lens(scn, digits) ==
    IF Len(digits) = 1 THEN [source \in 1..nr_sources(scn) |-> digits[1]]
    ELSE IF Len(digits) = nr_parties(scn) /\ Len(digits) > 0 THEN digits
    ELSE scn.inflation_levels

\* build_columns, 'physical...': party_frequencies, sorted by their sum
physical_party_frequencies(scn, lens) ==
    LET max_total_mon_length == SumSeq(lens)
        all_pfreq == product_seq([party \in 1..nr_parties(scn) |->
                                     [k \in 1..(lens[party] + 1) |-> k - 1]])
        short(f) == SumSeq(f) <= max_total_mon_length
        kept == SelectSeq(all_pfreq, short)
        party_frequencies == [i \in 1..Len(kept) |-> Reversed(kept[i])]
        of_sum(n) == LET has(f) == SumSeq(f) = n
                     IN  SelectSeq(party_frequencies, has)
    IN  FlattenSeq([n \in 1..(max_total_mon_length + 1) |-> of_sum(n - 1)])

\* build_columns, 'physical...': the monomials of one entry of party_frequencies
physical_monomials_of(scn, freqs) ==
    IF \A party \in DOMAIN freqs : freqs[party] = 0 THEN <<identity_operator>>
    ELSE LET used(party) == freqs[party] > 0
             parties == SelectSeq([party \in 1..Len(freqs) |-> party], used)
             physmons_per_party_per_length ==
                 [k \in 1..Len(parties) |->
                     phys_mon_1_party_of_given_len(scn, parties[k] - 1, freqs[parties[k]])]
             tuples == product_seq(physmons_per_party_per_length)
         IN  [i \in 1..Len(tuples) |-> to_canonical(FlattenSeq(tuples[i]))]

\* build_columns, 'physical...': physmon_lens has one entry per source when
\* a single digit is given and is indexed by party, which raises IndexError
\* for a party beyond the number of sources
physical_columns(scn, digits) ==
    LET lens == physmon_lens(scn, digits)
        party_frequencies == physical_party_frequencies(scn, lens)
    IN  IF Len(lens) < nr_parties(scn)
        THEN [returned |-> FALSE, cols |-> <<>>, raised |-> "IndexError"]
        ELSE [returned |-> TRUE,
              cols |-> FlattenSeq([i \in 1..Len(party_frequencies) |->
                                      physical_monomials_of(scn, party_frequencies[i])]),
              raised |-> ""]

\* the column structure of the tests for NPA level 2 with three parties
col_structure ==
    << <<>>, <<0>>, <<1>>, <<2>>,
       <<0, 0>>, <<0, 1>>, <<0, 2>>, <<1, 1>>, <<1, 2>>, <<2, 2>> >>


-----------------------------------------------------------------------------
(* Specification SpecColumns: build_columns, one product of operators (or    *)
(* one verbatim copy of an explicit list) per step                           *)

\* operators used in the explicit lists: party A of Mixed2, first copy of the first source
RawOps == {op \in Mixed2Ops : op[1] = 1 /\ op[2] = 1}

RawMonomials == Words(RawOps, MaxRawLen)

helper_styles == {"npa", "local", "blocks"}

ColumnJobs ==
    {[scn |-> "Bilocal", cs |-> [style |-> "npa", level |-> 2]],
     [scn |-> "Bilocal", cs |-> [style |-> "blocks", blocks |-> col_structure]],
     [scn |-> "OneParty", cs |-> [style |-> "blocks", blocks |-> << <<>>, <<0, 0>> >>]],
     [scn |-> "OneParty", cs |-> [style |-> "blocks",
                                  blocks |-> << <<>>, <<0, 0>>, <<0>>, <<>>, <<0>> >>]],
     [scn |-> "Mixed2", cs |-> [style |-> "local", level |-> 1]],
     [scn |-> "Mixed2", cs |-> [style |-> "npa", level |-> 2]],
     [scn |-> "Bilocal", cs |-> [style |-> "physical", digits |-> <<2>>]],
     [scn |-> "TwoSources3", cs |-> [style |-> "physical", digits |-> <<2>>]],
     [scn |-> "Mixed2", cs |-> [style |-> "physical", digits |-> <<1>>]]}
    \cup {[scn |-> "Mixed2", cs |-> [style |-> "arrays", cols |-> <<m1, m2>>]] :
             m1 \in RawMonomials, m2 \in RawMonomials}
    \cup {[scn |-> "Mixed2",
           cs |-> [style |-> "symbols", cols |-> <<to_name(m1), to_name(m2)>>]] :
             m1 \in RawMonomials, m2 \in RawMonomials}

InitColumns ==
    /\ commuting \in BOOLEAN
    /\ \E job \in ColumnJobs :
          /\ colScn = job.scn
          /\ column_specification = job.cs
    /\ blk = 1
    /\ prod = 1
    /\ res = <<>>
    /\ allvars = {}
    /\ columns = [returned |-> FALSE, cols |-> <<>>, raised |-> ""]
    /\ IdleNotCol

col_specs == col_specs_of(scenario_of(colScn), column_specification)

\* build_columns on a list of 2d arrays: the list is the result
BuildFromArrays ==
    /\ column_specification.style = "arrays"
    /\ ~columns.returned
    /\ columns' = [returned |-> TRUE, cols |-> column_specification.cols, raised |-> ""]
    /\ UNCHANGED <<commuting, colScn, column_specification, blk, prod, res, allvars, notCol>>

\* build_columns on a list of symbols: each symbol is turned into its array
BuildFromSymbols ==
    /\ column_specification.style = "symbols"
    /\ ~columns.returned
    /\ columns' = [returned |-> TRUE,
                   cols |-> [i \in 1..Len(column_specification.cols) |->
                                to_numbers(column_specification.cols[i])],
                   raised |-> ""]
    /\ UNCHANGED <<commuting, colScn, column_specification, blk, prod, res, allvars, notCol>>

\* build_columns on 'physicalN': the columns, or the exception raised
BuildPhysical ==
    /\ column_specification.style = "physical"
    /\ ~columns.returned
    /\ columns.raised = ""
    /\ columns' = physical_columns(scenario_of(colScn), column_specification.digits)
    /\ UNCHANGED <<commuting, colScn, column_specification, blk, prod, res, allvars, notCol>>

\* _build_cols_from_specs, an empty block
BlockIdentity ==
    /\ column_specification.style \in helper_styles
    /\ blk <= Len(col_specs)
    /\ col_specs[blk] = <<>>
    /\ res' = Append(res, identity_operator)
    /\ allvars' = allvars \cup {to_name(identity_operator)}
    /\ blk' = blk + 1
    /\ UNCHANGED <<commuting, colScn, column_specification, prod, columns, notCol>>

\* _build_cols_from_specs, one product of operators of a non-empty block
BlockProduct ==
    /\ column_specification.style \in helper_styles
    /\ blk <= Len(col_specs)
    /\ col_specs[blk] # <<>>
    /\ LET products == block_products(scenario_of(colScn), col_specs[blk])
           monomial_factors == products[prod]
           canon == column_canon(monomial_factors, commuting).array
           name == to_name(canon)
       IN  /\ IF column_kept(monomial_factors, commuting) /\ is_new_name(name, allvars)
              THEN /\ allvars' = allvars \cup {name}
                   /\ res' = Append(res, canon)
              ELSE UNCHANGED <<res, allvars>>
           /\ IF prod < Len(products)
              THEN prod' = prod + 1 /\ blk' = blk
              ELSE prod' = 1 /\ blk' = blk + 1
    /\ UNCHANGED <<commuting, colScn, column_specification, columns, notCol>>

\* build_columns returns what _build_cols_from_specs has collected
BuildReturn ==
    /\ column_specification.style \in helper_styles
    /\ blk > Len(col_specs)
    /\ ~columns.returned
    /\ columns' = [returned |-> TRUE, cols |-> res, raised |-> ""]
    /\ UNCHANGED <<commuting, colScn, column_specification, blk, prod, res, allvars, notCol>>

NextColumns ==
    \/ BuildFromArrays
    \/ BuildFromSymbols
    \/ BuildPhysical
    \/ BlockIdentity
    \/ BlockProduct
    \/ BuildReturn

SpecColumns == InitColumns /\ [][NextColumns]_vars


\* the 41 expected columns of the bilocality scenario at NPA level 2, by name
actual_cols ==
    <<<<>>,
      <<<<"A", 1, 0, 0, 0>>>>,
      <<<<"A", 2, 0, 0, 0>>>>,
      <<<<"B", 1, 1, 0, 0>>>>,
      <<<<"B", 1, 2, 0, 0>>>>,
      <<<<"B", 2, 1, 0, 0>>>>,
      <<<<"B", 2, 2, 0, 0>>>>,
      <<<<"C", 0, 1, 0, 0>>>>,
      <<<<"C", 0, 2, 0, 0>>>>,
      <<<<"A", 1, 0, 0, 0>>, <<"A", 2, 0, 0, 0>>>>,
      <<<<"A", 1, 0, 0, 0>>, <<"B", 1, 1, 0, 0>>>>,
      <<<<"A", 1, 0, 0, 0>>, <<"B", 1, 2, 0, 0>>>>,
      <<<<"A", 1, 0, 0, 0>>, <<"B", 2, 1, 0, 0>>>>,
      <<<<"A", 1, 0, 0, 0>>, <<"B", 2, 2, 0, 0>>>>,
      <<<<"A", 2, 0, 0, 0>>, <<"B", 1, 1, 0, 0>>>>,
      <<<<"A", 2, 0, 0, 0>>, <<"B", 1, 2, 0, 0>>>>,
      <<<<"A", 2, 0, 0, 0>>, <<"B", 2, 1, 0, 0>>>>,
      <<<<"A", 2, 0, 0, 0>>, <<"B", 2, 2, 0, 0>>>>,
      <<<<"A", 1, 0, 0, 0>>, <<"C", 0, 1, 0, 0>>>>,
      <<<<"A", 1, 0, 0, 0>>, <<"C", 0, 2, 0, 0>>>>,
      <<<<"A", 2, 0, 0, 0>>, <<"C", 0, 1, 0, 0>>>>,
      <<<<"A", 2, 0, 0, 0>>, <<"C", 0, 2, 0, 0>>>>,
      <<<<"B", 1, 1, 0, 0>>, <<"B", 1, 2, 0, 0>>>>,
      <<<<"B", 1, 1, 0, 0>>, <<"B", 2, 1, 0, 0>>>>,
      <<<<"B", 1, 1, 0, 0>>, <<"B", 2, 2, 0, 0>>>>,
      <<<<"B", 1, 2, 0, 0>>, <<"B", 1, 1, 0, 0>>>>,
      <<<<"B", 1, 2, 0, 0>>, <<"B", 2, 1, 0, 0>>>>,
      <<<<"B", 1, 2, 0, 0>>, <<"B", 2, 2, 0, 0>>>>,
      <<<<"B", 2, 1, 0, 0>>, <<"B", 1, 1, 0, 0>>>>,
      <<<<"B", 2, 1, 0, 0>>, <<"B", 2, 2, 0, 0>>>>,
      <<<<"B", 2, 2, 0, 0>>, <<"B", 1, 2, 0, 0>>>>,
      <<<<"B", 2, 2, 0, 0>>, <<"B", 2, 1, 0, 0>>>>,
      <<<<"B", 1, 1, 0, 0>>, <<"C", 0, 1, 0, 0>>>>,
      <<<<"B", 1, 1, 0, 0>>, <<"C", 0, 2, 0, 0>>>>,
      <<<<"B", 1, 2, 0, 0>>, <<"C", 0, 1, 0, 0>>>>,
      <<<<"B", 1, 2, 0, 0>>, <<"C", 0, 2, 0, 0>>>>,
      <<<<"B", 2, 1, 0, 0>>, <<"C", 0, 1, 0, 0>>>>,
      <<<<"B", 2, 1, 0, 0>>, <<"C", 0, 2, 0, 0>>>>,
      <<<<"B", 2, 2, 0, 0>>, <<"C", 0, 1, 0, 0>>>>,
      <<<<"B", 2, 2, 0, 0>>, <<"C", 0, 2, 0, 0>>>>,
      <<<<"C", 0, 1, 0, 0>>, <<"C", 0, 2, 0, 0>>>>>>

IsBilocalNpa2 ==
    /\ colScn = "Bilocal"
    /\ \/ column_specification = [style |-> "npa", level |-> 2]
       \/ column_specification = [style |-> "blocks", blocks |-> col_structure]

\* the commutation rule of the specification
commute_by_stated_rule(a, b) ==
    \/ commuting
    \/ party_of(a) # party_of(b)
    \/ \E s \in 1..Len(copies_of(a)) :
          /\ copies_of(a)[s] # 0
          /\ copies_of(b)[s] # 0
          /\ copies_of(a)[s] # copies_of(b)[s]

\* the commutation rule the columns of the code follow: operators of one party
\* commute iff they agree on no copy index
commute_by_disjoint_copies(a, b) ==
    \/ commuting
    \/ party_of(a) # party_of(b)
    \/ \A s \in 1..Len(copies_of(a)) :
          copies_of(a)[s] = 0 \/ copies_of(a)[s] # copies_of(b)[s]

BilocalOps == Range(default_lexorder(Bilocal, FALSE))

BothOrdersKept(a, b) ==
    /\ \E i \in 1..Len(columns.cols) : columns.cols[i] = <<a, b>>
    /\ \E i \in 1..Len(columns.cols) : columns.cols[i] = <<b, a>>

\* C3 (as stated): two operators commute iff the commuting model is selected,
\* or they are of different parties, or they disagree on at least one copy
\* index of a source both consume; the bilocal columns keep both products a*b
\* and b*a exactly for the pairs that do not commute under this rule.
C3_ColumnsFollowStatedRule ==
    (columns.returned /\ IsBilocalNpa2)
        => \A a, b \in BilocalOps :
              a # b => (BothOrdersKept(a, b) <=> ~commute_by_stated_rule(a, b))

\* C3 (amended): two operators commute iff the commuting model is selected, or
\* they are of different parties, or they agree on no copy index; the bilocal
\* columns at NPA level 2 are the 41 expected ones in the non-commuting model
\* and 37 in the commuting model, and both products a*b and b*a are kept
\* exactly for the pairs that do not commute under this rule.
C3_ColumnsFollowDisjointCopiesRule ==
    (columns.returned /\ IsBilocalNpa2)
        => /\ ~commuting =>
                 columns.cols = [i \in 1..Len(actual_cols) |-> to_numbers(actual_cols[i])]
           /\ commuting => Len(columns.cols) = 37
           /\ \A a, b \in BilocalOps :
                 a # b => (BothOrdersKept(a, b) <=> ~commute_by_disjoint_copies(a, b))

\* the non-commuting bilocal columns have been returned, with B_1_1*B_1_2 and
\* B_1_2*B_1_1 both among them
C3_Witness ==
    /\ columns.returned
    /\ IsBilocalNpa2
    /\ ~commuting
    /\ Len(columns.cols) = 41
    /\ BothOrdersKept(<<2, 1, 1, 0, 0>>, <<2, 1, 2, 0, 0>>)

IsCanonicalColumn(m) ==
    m = <<>> \/ (~column_canon(m, commuting).is_scalar_zero
                    /\ column_canon(m, commuting).array = m)

IsZeroColumn(m) ==
    m # <<>> /\ (column_canon(m, commuting).is_scalar_zero
                    \/ is_zero_array(column_canon(m, commuting).array))

SameCanonicalForm(m, n) ==
    \/ m = n
    \/ m # <<>> /\ n # <<>> /\ column_canon(m, commuting) = column_canon(n, commuting)

-----------------------------------------------------------------------------
(* Moment matrix and inflation symmetries (InflationSDP) *)

\* _build_cols_from_specs as one fold over the candidate products
RECURSIVE fold_cols(_, _, _)
fold_cols(cands, comm, acc) ==
    IF cands = <<>> THEN acc
    ELSE LET m == Head(cands)
             canon == column_canon(m, comm).array
         IN  IF m = <<>> THEN fold_cols(Tail(cands), comm, Append(acc, identity_operator))
             ELSE IF column_kept(m, comm) /\ is_new_name(canon, Range(acc))
                  THEN fold_cols(Tail(cands), comm, Append(acc, canon))
                  ELSE fold_cols(Tail(cands), comm, acc)

cols_from_specs(scn, comm, specs) ==
    fold_cols(FlattenSeq([b \in 1..Len(specs) |-> block_products(scn, specs[b])]),
              comm, <<>>)

\* the permutations of 1..n (itertools.permutations), as sequences
Permutations_of(n) == {p \in [1..n -> 1..n] : \A i, j \in 1..n : p[i] = p[j] => i = j}

\* a permutation of the copies of one source applied to an operator
permute_operator(op, source, permutation) ==
    IF op[1 + source] = 0 THEN op
    ELSE [op EXCEPT ![1 + source] = permutation[op[1 + source]]]

\* apply_source_permutation_coord_input: the columns with the copies of one
\* source relabelled and brought back to canonical form
apply_source_permutation_coord_input(cols, source, permutation, comm) ==
    [i \in 1..Len(cols) |->
        column_canon([k \in 1..Len(cols[i]) |->
                         permute_operator(cols[i][k], source, permutation)], comm).array]

index_in(list, x) == CHOOSE position \in 1..Len(list) : list[position] = x

\* find_permutation: where each permuted column sits in the original list;
\* "none" when a permuted column is not in the list (the call raises)
find_permutation(list_permuted, list_original) ==
    IF \A i \in 1..Len(list_permuted) : list_permuted[i] \in Range(list_original)
    THEN [found |-> TRUE,
          perm |-> [i \in 1..Len(list_permuted) |->
                       index_in(list_original, list_permuted[i])]]
    ELSE [found |-> FALSE, perm |-> <<>>]

RECURSIVE SortedSeqOf(_)
SortedSeqOf(S) ==
    IF S = {} THEN <<>>
    ELSE LET m == CHOOSE x \in S : \A y \in S \ {x} : LexLess(x, y)
         IN  <<m>> \o SortedSeqOf(S \ {m})

\* only the permutations of the copies of the first source
source_permutations_of_first_source(scn) ==
    {<<1, permutation>> : permutation \in Permutations_of(scn.inflation_levels[1])}

\* the pairs (source, permutation) _calculate_inflation_symmetries goes through
source_permutations(scn) ==
    UNION {{<<source, permutation>> :
               permutation \in Permutations_of(scn.inflation_levels[source])} :
           source \in 1..nr_sources(scn)}

\* _calculate_inflation_symmetries: the distinct column permutations, sorted
calculate_inflation_symmetries(scn, cols, comm) ==
    LET total(sp) == find_permutation(
                        apply_source_permutation_coord_input(cols, sp[1], sp[2], comm),
                        cols)
    IN  SortedSeqOf({total(sp).perm : sp \in {q \in source_permutations(scn) : total(q).found}})


\* dot_mon: the product M_i^dagger * M_j
dot_mon(mi, mj) == Reversed(mi) \o mj

\* calculate_momentmatrix: the key under which a non-zero, non-unit canonical
\* product is stored; a product and its reverse share the key
momentmatrix_key(v1, comm) ==
    IF comm THEN v1
    ELSE LET v2 == column_canon(Reversed(v1), comm).array
         IN  IF LexLess(FlattenSeq(v2), FlattenSeq(v1)) THEN v2 ELSE v1

\* calculate_momentmatrix: the id of one entry given the keys seen so far,
\* together with the keys seen after it
momentmatrix_entry(mi, mj, comm, known) ==
    LET v1 == column_canon(dot_mon(mi, mj), comm).array
        key == momentmatrix_key(v1, comm)
    IN  IF v1 # <<>> /\ is_zero_array(v1) THEN [idx |-> 0, known |-> known]
        ELSE IF v1 = <<>> THEN [idx |-> 1, known |-> known]
        ELSE IF key \in Range(known)
             THEN [idx |-> index_in(known, key) + 1, known |-> known]
             ELSE [idx |-> Len(known) + 2, known |-> Append(known, key)]

Min(a, b) == IF a < b THEN a ELSE b

\* np.minimum(symmetric_arr, symmetric_arr[permutation].T[permutation].T)
minimum_with_permuted(arr, permutation) ==
    [i \in 1..Len(arr) |-> [j \in 1..Len(arr) |->
        Min(arr[i][j], arr[permutation[i]][permutation[j]])]]

\* np.unique(momentmatrix.flat, return_index=True): for each id of the matrix,
\* in increasing order, the first position (row-major) where it occurs
unique_values(mm) == {mm[i][j] : i \in 1..Len(mm), j \in 1..Len(mm)}

first_position(mm, v) ==
    CHOOSE ij \in (1..Len(mm)) \X (1..Len(mm)) :
        /\ mm[ij[1]][ij[2]] = v
        /\ \A kl \in (1..Len(mm)) \X (1..Len(mm)) :
              mm[kl[1]][kl[2]] = v => LexLess(ij, kl) \/ ij = kl

SetMin(S) == CHOOSE x \in S : \A y \in S : x <= y

SetMax(S) == CHOOSE x \in S : \A y \in S : y <= x

\* orbits before the chains are followed, as a function of the unsymmetrised
\* id: absent ids below the smallest one map to themselves
initial_orbits(mm, arr) ==
    [v \in 0..SetMax(unique_values(mm)) |->
        IF v < SetMin(unique_values(mm)) THEN v
        ELSE IF v \in unique_values(mm)
             THEN arr[first_position(mm, v)[1]][first_position(mm, v)[2]]
             ELSE v]

\* "make the orbits go until the representative", the while loop for one key
RECURSIVE follow_orbit(_, _, _)
follow_orbit(orb, val, previous) ==
    LET nxt == orb[val]
    IN  IF nxt = previous THEN nxt ELSE follow_orbit(orb, nxt, nxt)

\* the for loop over the keys, each key updated in place
RECURSIVE follow_orbits(_, _)
follow_orbits(orb, key) ==
    IF key \notin DOMAIN orb THEN orb
    ELSE follow_orbits([orb EXCEPT ![key] = follow_orbit(orb, orb[key], 0)], key + 1)

\* np.unique(orbits, return_inverse=True): rank of each orbit representative
unsym_idx_to_sym_idx(orb) ==
    [v \in DOMAIN orb |-> Cardinality({w \in Range(orb) : w < orb[v]})]


-----------------------------------------------------------------------------
(* Specification SpecSymmetry: generate_relaxation from the generating       *)
(* columns to the symmetrised moment matrix                                  *)

SymmetryJobs ==
    {[scn |-> "Bilocal", blocks |-> << <<>>, <<0>>, <<1>>, <<2>> >>],
     [scn |-> "Bilocal", blocks |-> << <<>>, <<1>>, <<1, 1>> >>],
     [scn |-> "TwoSources3", blocks |-> << <<>>, <<0>> >>],
     [scn |-> "Mixed2", blocks |-> << <<>>, <<0>> >>],
     [scn |-> "CHSH", blocks |-> npa_col_specs(CHSH, 1)],
     [scn |-> "TwoCopies", blocks |-> npa_col_specs(TwoCopies, 2)]}

zero_matrix(n) == [i \in 1..n |-> [j \in 1..n |-> 0]]

InitSymmetry ==
    /\ commuting \in BOOLEAN
    /\ \E job \in SymmetryJobs :
          /\ symScn = job.scn
          /\ generating_monomials = cols_from_specs(scenario_of(job.scn), commuting, job.blocks)
    /\ momentmatrix = zero_matrix(Len(generating_monomials))
    /\ canonical_mon_to_idx = <<>>
    /\ entry = <<1, 1>>
    /\ inflation_symmetries = <<>>
    /\ next_perm = 0
    /\ symmetric_arr = <<>>
    /\ orbits = <<>>
    /\ sym_phase = "moments"
    /\ IdleNotSym

\* calculate_momentmatrix: one entry of the upper triangle and its mirror image
MomentEntry ==
    /\ sym_phase = "moments"
    /\ LET i == entry[1]
           j == entry[2]
           n == Len(generating_monomials)
           e == momentmatrix_entry(generating_monomials[i], generating_monomials[j],
                                   commuting, canonical_mon_to_idx)
       IN  /\ momentmatrix' = [momentmatrix EXCEPT ![i][j] = e.idx, ![j][i] = e.idx]
           /\ canonical_mon_to_idx' = e.known
           /\ IF j < n THEN entry' = <<i, j + 1>> /\ sym_phase' = sym_phase
              ELSE IF i < n THEN entry' = <<i + 1, i + 1>> /\ sym_phase' = sym_phase
              ELSE entry' = entry /\ sym_phase' = "symmetries"
    /\ UNCHANGED <<commuting, symScn, generating_monomials, inflation_symmetries,
                   next_perm, symmetric_arr, orbits, notSym>>

CalculateInflationSymmetries ==
    /\ sym_phase = "symmetries"
    /\ inflation_symmetries' =
          calculate_inflation_symmetries(scenario_of(symScn), generating_monomials, commuting)
    /\ symmetric_arr' = momentmatrix
    /\ next_perm' = 1
    /\ sym_phase' = "apply"
    /\ UNCHANGED <<commuting, symScn, generating_monomials, momentmatrix,
                   canonical_mon_to_idx, entry, orbits, notSym>>

\* _apply_inflation_symmetries: one turn of the loop over the permutations
ApplyPermutation ==
    /\ sym_phase = "apply"
    /\ next_perm <= Len(inflation_symmetries)
    /\ symmetric_arr' = minimum_with_permuted(symmetric_arr, inflation_symmetries[next_perm])
    /\ next_perm' = next_perm + 1
    /\ UNCHANGED <<commuting, symScn, generating_monomials, momentmatrix,
                   canonical_mon_to_idx, entry, inflation_symmetries, orbits,
                   sym_phase, notSym>>

\* _apply_inflation_symmetries: orbits, their representatives, compact ids
ComputeOrbits ==
    /\ sym_phase = "apply"
    /\ next_perm > Len(inflation_symmetries)
    /\ LET orb == follow_orbits(initial_orbits(momentmatrix, symmetric_arr), 0)
           inverse == unsym_idx_to_sym_idx(orb)
       IN  /\ orbits' = inverse
           /\ symmetric_arr' = [i \in 1..Len(momentmatrix) |->
                                   [j \in 1..Len(momentmatrix) |->
                                       inverse[momentmatrix[i][j]]]]
    /\ sym_phase' = "done"
    /\ UNCHANGED <<commuting, symScn, generating_monomials, momentmatrix,
                   canonical_mon_to_idx, entry, inflation_symmetries, next_perm, notSym>>

NextSymmetry ==
    \/ MomentEntry
    \/ CalculateInflationSymmetries
    \/ ApplyPermutation
    \/ ComputeOrbits

SpecSymmetry == InitSymmetry /\ [][NextSymmetry]_vars

\* the group G: one permutation of the copies for every source
GroupElements(scn) ==
    {g \in [1..nr_sources(scn) ->
               UNION {Permutations_of(scn.inflation_levels[s]) : s \in 1..nr_sources(scn)}] :
        \A s \in 1..nr_sources(scn) : Len(g[s]) = scn.inflation_levels[s]}

\* an element of G applied to an operator, one source after the other
RECURSIVE permute_all_sources(_, _, _)
permute_all_sources(op, g, source) ==
    IF source > Len(g) THEN op
    ELSE permute_all_sources(permute_operator(op, source, g[source]), g, source + 1)

\* an element of G applied to a monomial, operator by operator, then canonical form
apply_group_element(m, g) ==
    column_canon([k \in 1..Len(m) |-> permute_all_sources(m[k], g, 1)], commuting).array

\* the column onto which an element of G maps column i
sigma(g, i) == index_in(generating_monomials, apply_group_element(generating_monomials[i], g))

\* the canonical product of an entry of the moment matrix
entry_product(i, j) ==
    column_canon(dot_mon(generating_monomials[i], generating_monomials[j]), commuting).array

\* the orbit of a canonical product under G, the reverses of its elements included
orbit_up_to_reverse(m) ==
    LET images == {apply_group_element(m, g) : g \in GroupElements(scenario_of(symScn))}
    IN  images \cup {column_canon(Reversed(x), commuting).array : x \in images}

\* C4: after generate_relaxation on a generating set closed under source-copy
\* swaps, the symmetrised moment matrix is invariant under every element of G,
\* products of permutations of different sources included, and two entries
\* have the same id only if their products are in one orbit of G up to reversal.
C4_SymmetryQuotientExact ==
    sym_phase = "done" =>
        LET size == Len(generating_monomials)
            orbit_of == [i \in 1..size |-> [j \in 1..size |->
                            orbit_up_to_reverse(entry_product(i, j))]]
            product_of == [i \in 1..size |-> [j \in 1..size |-> entry_product(i, j)]]
        IN  /\ \A g \in GroupElements(scenario_of(symScn)) :
                  \A i \in 1..size : \A j \in i..size :
                      symmetric_arr[i][j] = symmetric_arr[sigma(g, i)][sigma(g, j)]
            /\ \A i, j, k, l \in 1..size :
                  symmetric_arr[i][j] = symmetric_arr[k][l]
                      => product_of[k][l] \in orbit_of[i][j]

\* the quotient has merged the entries B_1_1 and B_2_2 of the bilocal scenario,
\* which only a product of swaps of both sources relates
C4_Witness ==
    /\ sym_phase = "done"
    /\ symScn = "Bilocal"
    /\ ~commuting
    /\ \E i, j \in 1..Len(generating_monomials) :
          /\ generating_monomials[i] = << <<2, 1, 1, 0, 0>> >>
          /\ generating_monomials[j] = << <<2, 2, 2, 0, 0>> >>
          /\ momentmatrix[1][i] # momentmatrix[1][j]
          /\ symmetric_arr[1][i] = symmetric_arr[1][j]

-----------------------------------------------------------------------------
(* InflationLP: operators, orthogonal groups, raw events and their orbits.  *)
(* A boolean vector over the lexorder is the set of the ranks that are set; *)
(* ranks are counted from 1 (the code counts them from 0).                  *)

\* body(v) for v = e: the value of e is taken once and named
With(e, body(_)) == CHOOSE r \in {body(v) : v \in {e}} : TRUE

\* a common source feeding two parties, inflation level 2
LpChain ==
    [hypergraph |-> << <<1, 1>> >>,
     inflation_levels |-> <<2>>,
     settings |-> <<1, 1>>,
     outcomes |-> <<2, 2>>,
     has_children |-> <<TRUE, FALSE>>]

\* one party with three outcomes fed by a source of inflation level 3
LpSingle3 ==
    [hypergraph |-> << <<1>> >>,
     inflation_levels |-> <<3>>,
     settings |-> <<1>>,
     outcomes |-> <<3>>,
     has_children |-> <<FALSE>>]

\* InflationProblem._ortho_groups_per_party: for every party, the operators
\* of each measurement (copies, setting), all outcomes included
ortho_groups_per_party(scn) ==
    [p \in 1..nr_parties(scn) |->
        With(all_indices(scn, p, 1), LAMBDA copies :
            FlattenSeq([i \in 1..Len(copies) |->
                [x \in 1..scn.settings[p] |->
                    [a \in 1..scn.outcomes[p] |->
                        <<p>> \o copies[i] \o <<x - 1, a - 1>>]]]))]

\* InflationProblem._lexorder: every operator, sorted as integer rows
lp_lexorder(scn) ==
    SortSeq(FlattenSeq(FlattenSeq(ortho_groups_per_party(scn))), LexLess)

\* mon_to_boolvec
mon_to_boolvec(lexorder, ops) == {nb_mon_to_lexrepr(lexorder, ops[k]) : k \in 1..Len(ops)}

\* np.flatnonzero of a boolean vector: the ranks that are set, increasing
RECURSIVE flatnonzero(_)
flatnonzero(boolvec) ==
    IF boolvec = {} THEN <<>>
    ELSE LET least == CHOOSE r \in boolvec : \A q \in boolvec : r <= q
         IN  <<least>> \o flatnonzero(boolvec \ {least})

\* InflationLP.__init__: has_children after the two options are applied
has_children(job) ==
    [p \in 1..nr_parties(job.problem) |->
        IF job.include_all_outcomes \/ job.supports_problem THEN TRUE
        ELSE job.problem.has_children[p]]

\* the orthogonal groups of one party as arrays of boolean vectors
ortho_groups_as_boolarrays(lexorder, groups) ==
    [i \in 1..Len(groups) |->
        [a \in 1..Len(groups[i]) |-> mon_to_boolvec(lexorder, <<groups[i][a]>>)]]

\* the groups of every party, those of a party the test leaves out emptied
boolarrays_per_party(job, wanted(_)) ==
    With(lp_lexorder(job.problem), LAMBDA lexorder :
    With(ortho_groups_per_party(job.problem), LAMBDA groups :
        [p \in 1..nr_parties(job.problem) |->
            IF wanted(p) THEN ortho_groups_as_boolarrays(lexorder, groups[p]) ELSE <<>>]))

all_ortho_groups_as_boolarrays(job) ==
    FlattenSeq(boolarrays_per_party(job, LAMBDA p : TRUE))

CG_adjusting_ortho_groups_as_boolarrays(job) ==
    FlattenSeq(boolarrays_per_party(job, LAMBDA p : ~has_children(job)[p]))

CG_nonadjusting_ortho_groups_as_boolarrays(job) ==
    FlattenSeq(boolarrays_per_party(job, LAMBDA p : has_children(job)[p]))

\* no operator at all
boolvec_for_CG_ineqs_blank(job) == {}

\* the last-outcome operators of the parties without children
boolvec_for_CG_ineqs(job) ==
    With(CG_adjusting_ortho_groups_as_boolarrays(job), LAMBDA groups :
        UNION {groups[i][Len(groups[i])] : i \in 1..Len(groups)})

\* the last-outcome operators of the parties with children
boolvec_for_FR_eqs(job) ==
    With(CG_nonadjusting_ortho_groups_as_boolarrays(job), LAMBDA groups :
        UNION {groups[i][Len(groups[i])] : i \in 1..Len(groups)})

\* nb_outer_bitwise_or: every row of a joined with every row of b
nb_outer_bitwise_or(a, b) ==
    [k \in 1..(Len(a) * Len(b)) |->
        a[((k - 1) \div Len(b)) + 1] \cup b[((k - 1) % Len(b)) + 1]]

\* functools.reduce(f, list) for f = nb_outer_bitwise_or
RECURSIVE reduce_outer_or(_, _)
reduce_outer_or(acc, list) ==
    IF list = <<>> THEN acc
    ELSE With(nb_outer_bitwise_or(acc, Head(list)), LAMBDA joined :
            reduce_outer_or(joined, Tail(list)))

\* rows[np.argsort(rows.sum(axis=1))]: by number of operators, ties in order
RECURSIVE sort_by_sum(_, _, _)
sort_by_sum(rows, size, largest) ==
    IF size > largest THEN <<>>
    ELSE SelectSeq(rows, LAMBDA v : Cardinality(v) = size)
             \o sort_by_sum(rows, size + 1, largest)

\* build_raw_lexboolvecs, fanout branch, the list in Collins-Gisin notation
build_raw_lexboolvecs(job) ==
    With(all_ortho_groups_as_boolarrays(job), LAMBDA groups :
    With(boolvec_for_CG_ineqs(job), LAMBDA for_CG_ineqs :
    With(Reversed([i \in 1..Len(groups) |->
                      SelectSeq(<<{}>> \o groups[i],
                                LAMBDA v : v \cap for_CG_ineqs = {})]),
         LAMBDA choices_to_combine_CG :
    With(reduce_outer_or(Head(choices_to_combine_CG), Tail(choices_to_combine_CG)),
         LAMBDA raw_boolvecs_CG :
        sort_by_sum(raw_boolvecs_CG, 0, Len(groups))))))

\* InflationProblem.lexorder_symmetries: for every element of the group G the
\* permutation of the ranks it induces
lexorder_symmetries(scn, lexorder) ==
    {[i \in 1..Len(lexorder) |->
         nb_mon_to_lexrepr(lexorder, permute_all_sources(lexorder[i], g, 1))] :
     g \in GroupElements(scn)}

\* key[lexorder_symmetries]: the images of a boolean vector, one per symmetry
symmetric_boolvecs(syms, key) ==
    {{i \in DOMAIN perm : perm[i] \in key} : perm \in syms}

\* nb_apply_lexorder_perm_to_lexboolvecs: for every raw event the position of
\* the first raw event of its orbit
discover_inflation_orbits(syms, raw) ==
    IF Cardinality(syms) > 1
    THEN [i \in 1..Len(raw) |->
             With(symmetric_boolvecs(syms, raw[i]), LAMBDA mates :
                 SetMin({j \in 1..Len(raw) : raw[j] \in mates}))]
    ELSE [i \in 1..Len(raw) |-> i]

\* np.unique(orbits, return_index=True): the first position of every orbit
unique_indices_CG(orb) == flatnonzero(Range(orb))

\* np.unique(orbits, return_inverse=True): the column of every raw event,
\* columns counted from 0
inverse_CG(orb) ==
    [i \in 1..Len(orb) |-> Cardinality({v \in Range(orb) : v < orb[i]})]

-----------------------------------------------------------------------------
(* The registry of interned monomials.                                      *)
(* An interned object is its position in the list of the objects created so *)
(* far: reg.atoms lists the atomic monomials (the array each one stores),   *)
(* reg.moms the compound monomials (the multiset of the arrays of their     *)
(* atoms, and their idx, -1 when none is attached).  reg.atomic and         *)
(* reg.compound are the two caches, from key to object; reg.canonsym is     *)
(* canonsym_ndarray_from_hash_cache.  first_free_idx is -1 while the        *)
(* attribute does not exist.                                                *)

empty_registry ==
    [atoms |-> <<>>, moms |-> <<>>, canonsym |-> <<>>, atomic |-> <<>>,
     compound |-> <<>>, first_free_idx |-> -1]

\* dict[k] = v for every k of keys
Bind(dict, keys, v) ==
    [k \in (DOMAIN dict) \cup keys |-> IF k \in keys THEN v ELSE dict[k]]

\* tuple(sorted(atoms)) as the multiset of the arrays of the atoms
tuple_of_atoms(reg, list_of_atoms) ==
    With([k \in 1..Len(list_of_atoms) |-> reg.atoms[list_of_atoms[k]]], LAMBDA arrays :
        [a \in Range(arrays) |-> Cardinality({k \in 1..Len(arrays) : arrays[k] = a})])

\* CompoundMonomial.attach_idx_to_mon / CompoundMoment.attach_idx
attach_idx(reg, m, idx) ==
    IF idx >= 0 THEN [reg EXCEPT !.moms = [@ EXCEPT ![m] = [key |-> @.key, idx |-> idx]]]
    ELSE reg

\* two operators share a non-zero copy of some source
shares_source(a, b) ==
    \E s \in 1..Len(copies_of(a)) : copies_of(a)[s] # 0 /\ copies_of(a)[s] = copies_of(b)[s]

\* the positions of the connected component that contains the positions comp
RECURSIVE component_of(_, _)
component_of(m, comp) ==
    With({i \in (DOMAIN m) \ comp : \E c \in comp : shares_source(m[i], m[c])},
         LAMBDA more : IF more = {} THEN comp ELSE component_of(m, comp \cup more))

\* the operators of m at the given positions, in their order
restrict_to(m, positions) ==
    With(flatnonzero(positions), LAMBDA at : [k \in 1..Len(at) |-> m[at[k]]])

\* general_tools.factorize_monomial: the connected components of a monomial
RECURSIVE factorize_monomial(_)
factorize_monomial(m) ==
    IF m = <<>> THEN <<>>
    ELSE With(component_of(m, {1}), LAMBDA comp :
         With(restrict_to(m, (DOMAIN m) \ comp), LAMBDA others :
             <<restrict_to(m, comp)>> \o factorize_monomial(others)))

\* InflationProblem.factorize_monomial_1d: the same on arrays of ranks
factorize_monomial_1d(lexorder, array1d) ==
    With(factorize_monomial([k \in 1..Len(array1d) |-> lexorder[array1d[k]]]),
         LAMBDA factors :
        [i \in 1..Len(factors) |-> flatnonzero(mon_to_boolvec(lexorder, factors[i]))])

\* order of the rows of np.lexsort(boolvecs.T[::-1]): the first rank decides
boolvec_less(v, w) ==
    \E r \in w \ v : \A q \in v \cup w : q < r => (q \in v <=> q \in w)

(* ---- InflationLP ---- *)

\* InflationLP._AtomicMonomial
lp_AtomicMonomial(syms, reg, array1d) ==
    With(Range(array1d), LAMBDA key :
    With(Len(reg.atoms) + 1, LAMBDA fresh :
        IF key \in DOMAIN reg.atomic THEN [reg |-> reg, mon |-> reg.atomic[key]]
        ELSE IF Cardinality(syms) = 1
             THEN [reg |-> [reg EXCEPT !.atoms = Append(@, array1d),
                                       !.atomic = Bind(@, {key}, fresh)],
                   mon |-> fresh]
             ELSE With(symmetric_boolvecs(syms, key), LAMBDA mon_as_symboolvec :
                  With(CHOOSE v \in mon_as_symboolvec :
                           \A w \in mon_as_symboolvec \ {v} : boolvec_less(w, v),
                       LAMBDA mon_as_boolvec :
                      [reg |-> [reg EXCEPT
                                   !.atoms = Append(@, flatnonzero(mon_as_boolvec)),
                                   !.atomic = Bind(@, mon_as_symboolvec, fresh)],
                       mon |-> fresh]))))

\* InflationLP._monomial_from_atoms
lp_monomial_from_atoms(reg, atoms) ==
    With(tuple_of_atoms(reg, atoms), LAMBDA key :
    With(Len(reg.moms) + 1, LAMBDA fresh :
    With(reg.first_free_idx >= 0, LAMBDA counting :
        IF key \in DOMAIN reg.compound THEN [reg |-> reg, mon |-> reg.compound[key]]
        ELSE [reg |-> [reg EXCEPT
                          !.moms = Append(@, [key |-> key,
                                              idx |-> IF counting THEN reg.first_free_idx
                                                      ELSE -1]),
                          !.compound = Bind(@, {key}, fresh),
                          !.first_free_idx = IF counting THEN @ + 1 ELSE @],
              mon |-> fresh])))

\* [self._AtomicMonomial(factor) for factor in _factors if len(factor)]
RECURSIVE lp_list_of_atoms(_, _, _, _)
lp_list_of_atoms(syms, reg, factors, acc) ==
    IF factors = <<>> THEN [reg |-> reg, atoms |-> acc]
    ELSE IF Head(factors) = <<>> THEN lp_list_of_atoms(syms, reg, Tail(factors), acc)
    ELSE With(lp_AtomicMonomial(syms, reg, Head(factors)), LAMBDA made :
             lp_list_of_atoms(syms, made.reg, Tail(factors), Append(acc, made.mon)))

\* InflationLP.Monomial
lp_Monomial(lexorder, syms, reg, array1d, idx) ==
    With(factorize_monomial_1d(lexorder, array1d), LAMBDA factors :
    With(lp_list_of_atoms(syms, reg, factors, <<>>), LAMBDA listed :
    With(lp_monomial_from_atoms(listed.reg, listed.atoms), LAMBDA made :
        [reg |-> attach_idx(made.reg, made.mon, idx), mon |-> made.mon])))

\* _generate_lp, line 273: the first id given to a monomial created later
first_free_idx_plus_two(n_columns) == n_columns + 2

first_free_idx_after_generation(n_columns) == n_columns + 1

\* _generate_lp: the loop that creates the monomials of the columns idx =
\* first .. last (counted from 0), in the order of idx; the range is walked
\* as its first half followed by its second half
RECURSIVE initialize_monomials(_, _, _, _, _, _)
initialize_monomials(lexorder, syms, reg, cols, first, last) ==
    IF first > last THEN [reg |-> reg, monomials |-> <<>>]
    ELSE IF first = last
    THEN With(lp_Monomial(lexorder, syms, reg, flatnonzero(cols[first + 1]), first),
              LAMBDA made : [reg |-> made.reg, monomials |-> <<made.mon>>])
    ELSE With((first + last) \div 2, LAMBDA middle :
         With(initialize_monomials(lexorder, syms, reg, cols, first, middle),
              LAMBDA head :
         With(initialize_monomials(lexorder, syms, head.reg, cols, middle + 1, last),
              LAMBDA rest :
             [reg |-> rest.reg, monomials |-> head.monomials \o rest.monomials])))

\* InflationLP.__init__ from the creation of One on, _generate_lp included
generate_lp(job) ==
    With(lp_lexorder(job.problem), LAMBDA lexorder :
    With(lexorder_symmetries(job.problem, lexorder), LAMBDA syms :
    With(lp_Monomial(lexorder, syms, empty_registry, <<>>, 1), LAMBDA first :
    With([first.reg EXCEPT !.atomic = <<>>, !.compound = <<>>], LAMBDA reset :
    With(build_raw_lexboolvecs(job), LAMBDA raw :
    With(discover_inflation_orbits(syms, raw), LAMBDA orb :
    With(unique_indices_CG(orb), LAMBDA unique :
    With([k \in 1..Len(unique) |-> raw[unique[k]]], LAMBDA cols :
    With(initialize_monomials(lexorder, syms, reset, cols, 0, Len(cols) - 1),
         LAMBDA made :
        [reg |-> [made.reg EXCEPT
                     !.first_free_idx = first_free_idx_after_generation(Len(cols))],
         One |-> first.mon,
         raw |-> raw,
         inverse |-> inverse_CG(orb),
         cols |-> cols,
         monomials |-> made.monomials,
         lexorder |-> lexorder,
         syms |-> syms])))))))))


(* ---- InflationSDP ---- *)

\* a representative computed with the commutation rules of the non-commuting
\* model whatever the object was built with
to_representative_by_notcomm(scn, m, comm) ==
    With({to_canonical([k \in 1..Len(m) |-> permute_all_sources(m[k], g, 1)]) :
             g \in GroupElements(scn)}, LAMBDA images :
    With(images \cup {to_canonical(Reversed(image)) : image \in images}, LAMBDA orbit :
        CHOOSE least \in orbit :
            \A y \in orbit \ {least} : LexLess(FlattenSeq(least), FlattenSeq(y))))

\* general_tools.to_representative: the least image of a monomial under the
\* group G, the reverses of the images included
to_representative(scn, m, comm) ==
    With({column_canon([k \in 1..Len(m) |-> permute_all_sources(m[k], g, 1)],
                       comm).array : g \in GroupElements(scn)}, LAMBDA images :
    With(images \cup {column_canon(Reversed(image), comm).array : image \in images},
         LAMBDA orbit :
        CHOOSE least \in orbit :
            \A y \in orbit \ {least} : LexLess(FlattenSeq(least), FlattenSeq(y))))

\* InflationSDP.inflation_aware_to_ndarray_representative
inflation_aware_to_ndarray_representative(scn, comm, canonsym, m) ==
    With(to_canonical(m), LAMBDA unsym_monarray :
    With(unsym_monarray \in DOMAIN canonsym, LAMBDA looked_up :
    With(IF looked_up THEN canonsym[unsym_monarray]
         ELSE to_representative(scn, unsym_monarray, comm), LAMBDA sym_monarray :
    With(IF looked_up THEN canonsym
         ELSE Bind(canonsym, {sym_monarray}, sym_monarray), LAMBDA stored :
        [canonsym |-> Bind(stored, {unsym_monarray}, sym_monarray),
         array |-> sym_monarray]))))

\* InflationSDP.AtomicMonomial
AtomicMonomial(scn, comm, reg, array2d) ==
    LET quick_key == array2d
        fresh == Len(reg.atoms) + 1
        cached == reg.canonsym[quick_key]
    IN  IF quick_key \in DOMAIN reg.atomic
        THEN [reg |-> reg, mon |-> reg.atomic[quick_key]]
        ELSE IF quick_key \in DOMAIN reg.canonsym
        THEN IF cached \in DOMAIN reg.atomic
             THEN [reg |-> [reg EXCEPT !.atomic = Bind(@, {quick_key}, reg.atomic[cached])],
                   mon |-> reg.atomic[cached]]
             ELSE [reg |-> [reg EXCEPT !.atoms = Append(@, cached),
                                       !.atomic = Bind(@, {quick_key, cached}, fresh)],
                   mon |-> fresh]
        ELSE With(IF array2d = <<>> \/ is_zero_array(array2d)
                  THEN [canonsym |-> reg.canonsym, array |-> array2d]
                  ELSE inflation_aware_to_ndarray_representative(scn, comm, reg.canonsym,
                                                                 array2d),
                  LAMBDA rep :
                 [reg |-> [reg EXCEPT
                              !.atoms = Append(@, rep.array),
                              !.canonsym = Bind(rep.canonsym, {quick_key, rep.array},
                                                rep.array),
                              !.atomic = Bind(@, {quick_key, rep.array}, fresh)],
                  mon |-> fresh])

\* the loop of monomial_from_list_of_atomic: a zero factor replaces the list,
\* unit factors are dropped
RECURSIVE kept_atoms(_, _, _)
kept_atoms(reg, list_of_AtomicMonomials, list_of_atoms) ==
    IF list_of_AtomicMonomials = <<>> THEN list_of_atoms
    ELSE LET factor == Head(list_of_AtomicMonomials)
         IN  IF is_zero_array(reg.atoms[factor]) THEN <<factor>>
             ELSE IF reg.atoms[factor] # <<>>
                  THEN kept_atoms(reg, Tail(list_of_AtomicMonomials),
                                  Append(list_of_atoms, factor))
                  ELSE kept_atoms(reg, Tail(list_of_AtomicMonomials), list_of_atoms)

\* InflationSDP.monomial_from_list_of_atomic
monomial_from_list_of_atomic(reg, list_of_AtomicMonomials) ==
    With(kept_atoms(reg, list_of_AtomicMonomials, <<>>), LAMBDA list_of_atoms :
    With(tuple_of_atoms(reg, list_of_atoms), LAMBDA key :
    With(Len(reg.moms) + 1, LAMBDA fresh :
        IF key \in DOMAIN reg.compound THEN [reg |-> reg, mon |-> reg.compound[key]]
        ELSE [reg |-> [reg EXCEPT !.moms = Append(@, [key |-> key, idx |-> -1]),
                                  !.compound = Bind(@, {key}, fresh)],
              mon |-> fresh])))

\* [self.AtomicMonomial(factor) for factor in _factors if len(factor)]
RECURSIVE list_of_atoms_of(_, _, _, _, _)
list_of_atoms_of(scn, comm, reg, factors, acc) ==
    IF factors = <<>> THEN [reg |-> reg, atoms |-> acc]
    ELSE IF Head(factors) = <<>> THEN list_of_atoms_of(scn, comm, reg, Tail(factors), acc)
    ELSE With(AtomicMonomial(scn, comm, reg, Head(factors)), LAMBDA made :
             list_of_atoms_of(scn, comm, made.reg, Tail(factors), Append(acc, made.mon)))

\* InflationSDP.Monomial
Monomial(scn, comm, reg, array2d, idx) ==
    With(factorize_monomial(array2d), LAMBDA factors :
    With(list_of_atoms_of(scn, comm, reg, factors, <<>>), LAMBDA listed :
    With(monomial_from_list_of_atomic(listed.reg, listed.atoms), LAMBDA made :
        [reg |-> attach_idx(made.reg, made.mon, idx), mon |-> made.mon])))

\* InflationSDP.__init__: the caches, then Zero and One
construct_sdp(scn, comm) ==
    With(Monomial(scn, comm, empty_registry, zero_operator(nr_properties(scn)), 0),
         LAMBDA zero :
    With(Monomial(scn, comm, zero.reg, identity_operator, 1), LAMBDA one :
        [reg |-> one.reg, Zero |-> zero.mon, One |-> one.mon]))

\* calculate_momentmatrix: the ids of the upper triangle, row after row
RECURSIVE calculate_momentmatrix(_, _, _, _, _)
calculate_momentmatrix(cols, comm, i, j, acc) ==
    IF i > Len(cols) THEN acc
    ELSE With(momentmatrix_entry(cols[i], cols[j], comm, acc.known), LAMBDA e :
         With([ids |-> Append(acc.ids, e.idx), known |-> e.known], LAMBDA next :
             IF j < Len(cols) THEN calculate_momentmatrix(cols, comm, i, j + 1, next)
             ELSE calculate_momentmatrix(cols, comm, i + 1, i + 1, next)))

\* _build_momentmatrix: the symmetric matrix of the ids and the keys from id 2
build_momentmatrix(cols, comm) ==
    With(Len(cols), LAMBDA n :
    With(calculate_momentmatrix(cols, comm, 1, 1, [ids |-> <<>>, known |-> <<>>]),
         LAMBDA upper :
        LET at(i, j) ==
                upper.ids[((i - 1) * n) - (((i - 1) * (i - 2)) \div 2) + (j - i + 1)]
        IN  [arr |-> [i \in 1..n |->
                         [j \in 1..n |-> IF i <= j THEN at(i, j) ELSE at(j, i)]],
             known |-> upper.known]))

\* _apply_inflation_symmetries: the loop over the permutations
RECURSIVE apply_permutations(_, _)
apply_permutations(arr, permutations) ==
    IF permutations = <<>> THEN arr
    ELSE With(minimum_with_permuted(arr, Head(permutations)), LAMBDA lower :
             apply_permutations(lower, Tail(permutations)))

\* the calls self.Monomial(v, idx=k) of generate_relaxation, in the order of k
RECURSIVE monomials_of_relaxation(_, _, _, _, _)
monomials_of_relaxation(scn, comm, reg, items, made_so_far) ==
    IF items = <<>> THEN [reg |-> reg, monomials |-> made_so_far]
    ELSE With(Monomial(scn, comm, reg, Head(items).v, Head(items).k), LAMBDA made :
             monomials_of_relaxation(scn, comm, made.reg, Tail(items),
                                     Append(made_so_far, made.mon)))

\* InflationSDP.generate_relaxation as far as the registry is concerned
generate_relaxation(scn, comm, blocks, reg, Zero_mon, One_mon) ==
    With(cols_from_specs(scn, comm, blocks), LAMBDA cols :
    With(build_momentmatrix(cols, comm), LAMBDA unsym :
    With(calculate_inflation_symmetries(scn, cols, comm), LAMBDA symmetries :
    With(apply_permutations(unsym.arr, symmetries), LAMBDA minimal :
    With(initial_orbits(unsym.arr, minimal), LAMBDA chains :
    With(follow_orbits(chains, 0), LAMBDA orb :
    With(unsym_idx_to_sym_idx(orb), LAMBDA sym_idx :
    With(flatnonzero({v \in Range(orb) : v >= 2}), LAMBDA old_representatives :
    With([n \in 1..Len(old_representatives) |->
             [k |-> sym_idx[old_representatives[n]],
              v |-> unsym.known[old_representatives[n] - 1]]], LAMBDA items :
    With(Range(unsym.known), LAMBDA unsym_keys :
    With([key \in (DOMAIN reg.canonsym) \cup unsym_keys |->
             IF key \in unsym_keys
             THEN unsym.known[orb[index_in(unsym.known, key) + 1] - 1]
             ELSE reg.canonsym[key]], LAMBDA canonsym :
    With(monomials_of_relaxation(scn, comm, [reg EXCEPT !.canonsym = canonsym],
                                 items, <<>>), LAMBDA made :
    With(unique_values(unsym.arr), LAMBDA ids :
        [reg |-> made.reg,
         list_of_monomials |-> (IF 0 \in ids THEN <<Zero_mon>> ELSE <<>>)
                               \o (IF 1 \in ids THEN <<One_mon>> ELSE <<>>)
                               \o made.monomials,
         cols |-> cols])))))))))))))


(* ---- InflationLP.minimal_sparse_equalities ---- *)

\* nb_outer_bitwise_xor: every entry of a combined with every entry of b
nb_outer_bitwise_xor(a, b) ==
    [k \in 1..(Len(a) * Len(b)) |->
        a[((k - 1) \div Len(b)) + 1] # b[((k - 1) % Len(b)) + 1]]

RECURSIVE reduce_outer_xor(_, _)
reduce_outer_xor(acc, list) ==
    IF list = <<>> THEN acc
    ELSE With(nb_outer_bitwise_xor(acc, Head(list)), LAMBDA joined :
            reduce_outer_xor(joined, Tail(list)))

\* the alternatives of a last-outcome operator, its own row included
alternatives_with_last_outcome(job) ==
    With(CG_nonadjusting_ortho_groups_as_boolarrays(job), LAMBDA groups :
    With(flatnonzero(boolvec_for_FR_eqs(job)), LAMBDA keys :
        [v \in Range(keys) |-> <<{}>> \o groups[index_in(keys, v)]]))

\* alternatives_as_boolarrays: for every last-outcome operator of a party with
\* children, np.pad(r[:-1], ((1, 0), (0, 0))) of the group zipped with it
alternatives_as_boolarrays(job) ==
    With(CG_nonadjusting_ortho_groups_as_boolarrays(job), LAMBDA groups :
    With(flatnonzero(boolvec_for_FR_eqs(job)), LAMBDA keys :
        [v \in Range(keys) |->
            With(groups[index_in(keys, v)], LAMBDA r :
                <<{}>> \o SubSeq(r, 1, Len(r) - 1))]))

\* the row of the equalities written for one column; failed tells that a term
\* is missing from _raw_lookup_dict
equality_row(alternatives, for_FR_eqs, raw, inverse_of, bool_vec) ==
    With(bool_vec \cap for_FR_eqs, LAMBDA critical_boolvec_intersection :
    With(bool_vec \ critical_boolvec_intersection, LAMBDA absent_c_boolvec :
    With(flatnonzero(critical_boolvec_intersection), LAMBDA critical_values_in_boovec :
    With([i \in DOMAIN alternatives |->
             [k \in 1..Len(alternatives[i]) |-> alternatives[i][k] # {}]],
         LAMBDA alternatives_as_signs :
    With(reduce_outer_xor(alternatives_as_signs[Head(critical_values_in_boovec)],
             [n \in 1..(Len(critical_values_in_boovec) - 1) |->
                 alternatives_as_signs[critical_values_in_boovec[n + 1]]])
         \o <<TRUE>>, LAMBDA signs :
    With(reduce_outer_or(alternatives[Head(critical_values_in_boovec)],
             [n \in 1..(Len(critical_values_in_boovec) - 1) |->
                 alternatives[critical_values_in_boovec[n + 1]]]), LAMBDA adjustments :
    With([k \in 1..Len(adjustments) |-> absent_c_boolvec \cup adjustments[k]]
         \o <<bool_vec>>, LAMBDA terms_as_boolvecs :
        IF \E k \in 1..Len(terms_as_boolvecs) : terms_as_boolvecs[k] \notin Range(raw)
        THEN [failed |-> TRUE, terms |-> <<>>]
        ELSE [failed |-> FALSE,
              terms |-> [k \in 1..Len(terms_as_boolvecs) |->
                            [col |-> inverse_of[index_in(raw, terms_as_boolvecs[k])],
                             data |-> IF signs[k] THEN -1 ELSE 1]]])))))))

\* minimal_sparse_equalities: one row for every column that holds a
\* last-outcome operator of a party with children
RECURSIVE equality_rows(_, _, _, _, _, _)
equality_rows(alternatives, for_FR_eqs, raw, inverse_of, cols, n) ==
    IF n > Len(cols) THEN <<>>
    ELSE IF cols[n] \cap for_FR_eqs = {}
         THEN equality_rows(alternatives, for_FR_eqs, raw, inverse_of, cols, n + 1)
         ELSE <<[of |-> n - 1,
                 row |-> equality_row(alternatives, for_FR_eqs, raw, inverse_of, cols[n])]>>
                  \o equality_rows(alternatives, for_FR_eqs, raw, inverse_of, cols, n + 1)

minimal_sparse_equalities(job, raw, inverse_of, cols) ==
    With(boolvec_for_FR_eqs(job), LAMBDA for_FR_eqs :
        IF for_FR_eqs = {} THEN <<>>
        ELSE With(alternatives_as_boolarrays(job), LAMBDA alternatives :
                 equality_rows(alternatives, for_FR_eqs, raw, inverse_of, cols, 1)))

-----------------------------------------------------------------------------
(* Specification SpecEngines: an InflationSDP or an InflationLP object after *)
(* its construction, then generate_relaxation, the requests for interned     *)
(* monomials and the equalities of the LP                                    *)

\* number of requests made to the registry of one object
MaxCalls == 2

SdpJobs ==
    {[problem |-> Bilocal, supports_problem |-> s, commuting |-> c,
      blocks |-> << <<>>, <<0>> >>] : s \in BOOLEAN, c \in BOOLEAN}

LpProblems ==
    {[LpChain EXCEPT !.has_children = h] :
        h \in {<<TRUE, FALSE>>, <<FALSE, TRUE>>, <<FALSE, FALSE>>}}
    \cup {[LpSingle3 EXCEPT !.has_children = h] : h \in {<<TRUE>>, <<FALSE>>}}

LpJobs ==
    {[problem |-> p, include_all_outcomes |-> o[1], supports_problem |-> o[2]] :
        p \in LpProblems, o \in {<<FALSE, FALSE>>, <<TRUE, FALSE>>, <<FALSE, TRUE>>}}

\* the problem as InflationSDP.__init__ stores it: with supports_problem every
\* party gets one more outcome
sdp_problem(job) ==
    [job.problem EXCEPT !.outcomes = outcome_cardinalities(job.problem, job.supports_problem)]

\* atomic arrays requested from the SDP registry: A_1, A_2, B_1_2, B_2_2
SdpAtomicArrays ==
    {<< <<1, 1, 0, 0, 0>> >>, << <<1, 2, 0, 0, 0>> >>,
     << <<2, 1, 2, 0, 0>> >>, << <<2, 2, 2, 0, 0>> >>}

\* monomials given to the SDP sanitiser: 1, C_1, A_2 * C_2 and the two
\* orderings of B_1_1 and B_1_2
SdpMonomialArrays ==
    {<<>>, << <<3, 0, 1, 0, 0>> >>, << <<1, 2, 0, 0, 0>>, <<3, 0, 2, 0, 0>> >>,
     << <<2, 1, 1, 0, 0>>, <<2, 1, 2, 0, 0>> >>, << <<2, 1, 2, 0, 0>>, <<2, 1, 1, 0, 0>> >>}

\* atomic arrays of ranks requested from the LP registry: two orbit mates
\* with outcome 0 and an operator with the last outcome
LpAtomicArrays(scn) ==
    IF nr_parties(scn) = 2 THEN {<<1>>, <<3>>, <<6>>} ELSE {<<4>>, <<7>>, <<9>>}

\* monomials given to the LP sanitiser: two factors, a last outcome, two
\* outcomes of one measurement; the empty array with is_number stands for the
\* number 1
LpMonomialArrays(scn) ==
    {[is_number |-> TRUE, array |-> <<>>]}
    \cup {[is_number |-> FALSE, array |-> a] :
             a \in IF nr_parties(scn) = 2 THEN {<<1, 7>>, <<6>>, <<1, 2>>}
                   ELSE {<<4, 8>>, <<6>>, <<1, 2>>}}

InitEngines ==
    /\ \/ \E j \in SdpJobs :
             \E made \in {construct_sdp(sdp_problem(j), j.commuting)} :
                 /\ engine = "SDP"
                 /\ engJob = j
                 /\ commuting = j.commuting
                 /\ operators = FlattenSeq(measurements(j.problem, j.supports_problem))
                 /\ registry = made.reg
                 /\ Zero = made.Zero
                 /\ One = made.One
                 /\ monomials = <<>>
                 /\ generated = FALSE
                 /\ raw_monomials_as_lexboolvecs = <<>>
                 /\ inverse_of_raw = <<>>
                 /\ monomials_as_lexboolvecs = <<>>
                 /\ lexorder_syms = {}
       \/ \E j \in LpJobs :
             \E made \in {generate_lp(j)} :
                 /\ engine = "LP"
                 /\ engJob = j
                 /\ commuting = FALSE
                 /\ operators = made.lexorder
                 /\ registry = made.reg
                 /\ Zero = 0
                 /\ One = made.One
                 /\ monomials = made.monomials
                 /\ generated = TRUE
                 /\ raw_monomials_as_lexboolvecs = made.raw
                 /\ inverse_of_raw = made.inverse
                 /\ monomials_as_lexboolvecs = made.cols
                 /\ lexorder_syms = made.syms
    /\ nr_calls = 0
    /\ returned_atoms = {}
    /\ equalities = [computed |-> FALSE, rows |-> <<>>]
    /\ IdleNotEng

\* InflationSDP.generate_relaxation
GenerateRelaxation ==
    /\ engine = "SDP"
    /\ ~generated
    /\ \E made \in {generate_relaxation(sdp_problem(engJob), commuting, engJob.blocks,
                                        registry, Zero, One)} :
          /\ registry' = made.reg
          /\ monomials' = made.list_of_monomials
    /\ generated' = TRUE
    /\ UNCHANGED <<commuting, engine, engJob, operators, Zero, One,
                   raw_monomials_as_lexboolvecs, inverse_of_raw, monomials_as_lexboolvecs,
                   lexorder_syms, nr_calls, returned_atoms, equalities, notEng>>

\* a call of InflationSDP.AtomicMonomial
CallAtomicMonomial ==
    /\ engine = "SDP"
    /\ nr_calls < MaxCalls
    /\ \E array2d \in SdpAtomicArrays :
          \E made \in {AtomicMonomial(sdp_problem(engJob), commuting, registry, array2d)} :
              /\ registry' = made.reg
              /\ returned_atoms' = returned_atoms \cup {[array |-> array2d, mon |-> made.mon]}
    /\ nr_calls' = nr_calls + 1
    /\ UNCHANGED <<commuting, engine, engJob, operators, Zero, One, monomials, generated,
                   raw_monomials_as_lexboolvecs, inverse_of_raw, monomials_as_lexboolvecs,
                   lexorder_syms, equalities, notEng>>

\* a call of InflationSDP._sanitise_monomial on a 2d array
CallSanitiseMonomial ==
    /\ engine = "SDP"
    /\ nr_calls < MaxCalls
    /\ \E array2d \in SdpMonomialArrays :
          \E canon \in {sanitise_array(array2d)} :
              registry' = IF canon.is_Zero THEN registry
                          ELSE Monomial(sdp_problem(engJob), commuting, registry,
                                        canon.array, -1).reg
    /\ nr_calls' = nr_calls + 1
    /\ UNCHANGED <<commuting, engine, engJob, operators, Zero, One, monomials, generated,
                   raw_monomials_as_lexboolvecs, inverse_of_raw, monomials_as_lexboolvecs,
                   lexorder_syms, returned_atoms, equalities, notEng>>

\* a call of InflationLP._AtomicMonomial
LpCallAtomicMonomial ==
    /\ engine = "LP"
    /\ nr_calls < MaxCalls
    /\ \E array1d \in LpAtomicArrays(engJob.problem) :
          \E made \in {lp_AtomicMonomial(lexorder_syms, registry, array1d)} :
              /\ registry' = made.reg
              /\ returned_atoms' = returned_atoms \cup {[array |-> array1d, mon |-> made.mon]}
    /\ nr_calls' = nr_calls + 1
    /\ UNCHANGED <<commuting, engine, engJob, operators, Zero, One, monomials, generated,
                   raw_monomials_as_lexboolvecs, inverse_of_raw, monomials_as_lexboolvecs,
                   lexorder_syms, equalities, notEng>>

\* a call of InflationLP._sanitise_monomial on a 1d array or on the number 1
LpCallSanitiseMonomial ==
    /\ engine = "LP"
    /\ nr_calls < MaxCalls
    /\ \E given \in LpMonomialArrays(engJob.problem) :
          registry' = IF given.is_number THEN registry
                      ELSE lp_Monomial(operators, lexorder_syms, registry,
                                       given.array, -1).reg
    /\ nr_calls' = nr_calls + 1
    /\ UNCHANGED <<commuting, engine, engJob, operators, Zero, One, monomials, generated,
                   raw_monomials_as_lexboolvecs, inverse_of_raw, monomials_as_lexboolvecs,
                   lexorder_syms, returned_atoms, equalities, notEng>>

\* the cached property InflationLP.minimal_sparse_equalities
MinimalSparseEqualities ==
    /\ engine = "LP"
    /\ ~equalities.computed
    /\ equalities' =
          [computed |-> TRUE,
           rows |-> minimal_sparse_equalities(engJob, raw_monomials_as_lexboolvecs,
                                              inverse_of_raw, monomials_as_lexboolvecs)]
    /\ UNCHANGED <<commuting, engine, engJob, operators, registry, Zero, One, monomials,
                   generated, raw_monomials_as_lexboolvecs, inverse_of_raw,
                   monomials_as_lexboolvecs, lexorder_syms, nr_calls, returned_atoms, notEng>>

NextEngines ==
    \/ GenerateRelaxation
    \/ CallAtomicMonomial
    \/ CallSanitiseMonomial
    \/ LpCallAtomicMonomial
    \/ LpCallSanitiseMonomial
    \/ MinimalSparseEqualities

SpecEngines == InitEngines /\ [][NextEngines]_vars


-----------------------------------------------------------------------------
(* Ids of the compound monomials *)

idx_of(m) == registry.moms[m].idx

\* the compound monomials that are neither Zero, One nor one of the generated ones
later_monomials == (1..Len(registry.moms)) \ (Range(monomials) \cup {Zero, One})

C5_SdpIds ==
    engine = "SDP" =>
        /\ idx_of(Zero) = 0
        /\ idx_of(One) = 1
        /\ LET listed == SelectSeq(monomials, LAMBDA m : m \notin {Zero, One})
           IN  \A k \in 1..Len(listed) : idx_of(listed[k]) = k + 1
        /\ \A m \in later_monomials : idx_of(m) = -1

\* InflationLP: the monomial of column k has id k, the first column being the
\* unit monomial with id 0; the object One made before the generation keeps
\* id 1 and is not in the registry; the monomials created later have the ids
\* n_columns + 1, n_columns + 2, ...
C5_LpIds ==
    engine = "LP" =>
        /\ \A k \in 1..Len(monomials) : idx_of(monomials[k]) = k - 1
        /\ registry.moms[monomials[1]].key = <<>>
        /\ idx_of(One) = 1
        /\ One \notin Range(registry.compound)
        /\ {idx_of(m) : m \in later_monomials}
              = (Len(monomials) + 1)..(Len(monomials) + Cardinality(later_monomials))

-----------------------------------------------------------------------------
(* The caches of the registry *)

\* C6: over any sequence of requests, a key of the atomic cache or of the
\* compound cache that is bound to an object stays bound to that same object.
C6_RegistryGrowOnly ==
    [][/\ \A key \in DOMAIN registry.atomic :
             /\ key \in DOMAIN registry'.atomic
             /\ registry'.atomic[key] = registry.atomic[key]
       /\ \A key \in DOMAIN registry.compound :
             /\ key \in DOMAIN registry'.compound
             /\ registry'.compound[key] = registry.compound[key]]_vars

\* two atomic arrays are in one orbit of the group of source-copy permutations
same_orbit(a, b) ==
    IF engine = "SDP"
    THEN to_representative(sdp_problem(engJob), a, commuting)
            = to_representative(sdp_problem(engJob), b, commuting)
    ELSE Range(b) \in symmetric_boolvecs(lexorder_syms, Range(a))

\* the least element of the orbit of an atomic array
least_of_orbit(a) ==
    IF engine = "SDP" THEN to_representative(sdp_problem(engJob), a, commuting)
    ELSE LET orbit == {flatnonzero(v) : v \in symmetric_boolvecs(lexorder_syms, Range(a))}
         IN  CHOOSE x \in orbit :
                 \A y \in orbit \ {x} : \E i \in 1..Len(x) :
                     x[i] < y[i] /\ \A j \in 1..(i - 1) : x[j] = y[j]

\* C7: two atomic arrays of one orbit are given the identical object, in
\* whichever order they are requested, and that object stores the least
\* element of the orbit.
C7_OrbitMatesShareOneObject ==
    \A first \in returned_atoms : \A second \in returned_atoms :
        same_orbit(first.array, second.array) =>
            /\ first.mon = second.mon
            /\ registry.atoms[first.mon] = least_of_orbit(first.array)

-----------------------------------------------------------------------------
(* Collins-Gisin notation *)

\* the last outcome o_p - 1 of the party of an operator
last_outcome(op) == engJob.problem.outcomes[party_of(op)] - 1

\* the operators of the columns of the LP
operators_of_columns ==
    {operators[r] : r \in UNION Range(monomials_as_lexboolvecs)}

\* C9 (as stated): whatever the options of the constructor, no measurement
\* operator of the SDP and no operator of an LP variable carries the last
\* outcome o_p - 1 of its party.
C9_NoLastOutcome ==
    /\ engine = "SDP" => \A op \in Range(operators) : outcome_of(op) < last_outcome(op)
    /\ engine = "LP" => \A op \in operators_of_columns : outcome_of(op) < last_outcome(op)

\* C9 (amended): the operators of an InflationSDP carry the outcomes
\* 0 .. o_p - 2, and 0 .. o_p - 1 with supports_problem; the LP variables
\* hold last-outcome operators of exactly the parties that have children,
\* which is every party with include_all_outcomes or supports_problem.
C9_LastOutcomeWhereKept ==
    /\ engine = "SDP" =>
          \A p \in 1..nr_parties(engJob.problem) :
              {outcome_of(op) : op \in {o \in Range(operators) : party_of(o) = p}}
                 = 0..(IF engJob.supports_problem THEN engJob.problem.outcomes[p] - 1
                       ELSE engJob.problem.outcomes[p] - 2)
    /\ engine = "LP" =>
          \A p \in 1..nr_parties(engJob.problem) :
              has_children(engJob)[p]
                 <=> \E op \in operators_of_columns :
                        party_of(op) = p /\ outcome_of(op) = last_outcome(op)

\* an LP without the two options in which the first party has children and the
\* second has none: a variable holds the last outcome of the first party
C9_Witness ==
    /\ engine = "LP"
    /\ ~engJob.include_all_outcomes
    /\ ~engJob.supports_problem
    /\ engJob.problem.has_children = <<TRUE, FALSE>>
    /\ \E op \in operators_of_columns : party_of(op) = 1 /\ outcome_of(op) = last_outcome(op)

-----------------------------------------------------------------------------
(* Normalization equalities of the LP *)

\* the columns (counted from 0) that hold an event or one of its orbit mates
columns_of_event(event) ==
    {c - 1 : c \in {n \in 1..Len(monomials_as_lexboolvecs) :
                       monomials_as_lexboolvecs[n]
                          \in symmetric_boolvecs(lexorder_syms, event)}}

\* the coefficient a row of the equalities gives to a column
coefficient(terms, c) ==
    SumSeq([k \in 1..Len(terms) |-> IF terms[k].col = c THEN terms[k].data ELSE 0])

\* the other outcomes of the measurement of the operator of rank x
other_outcomes(x) ==
    {r \in 1..Len(operators) :
        /\ r # x
        /\ SubSeq(operators[r], 1, Len(operators[r]) - 1)
              = SubSeq(operators[x], 1, Len(operators[x]) - 1)}

\* the ranks of the last-outcome operators of the parties with children
last_outcomes_with_children ==
    {r \in 1..Len(operators) :
        /\ outcome_of(operators[r]) = last_outcome(operators[r])
        /\ has_children(engJob)[party_of(operators[r])]}

\* C10: for every LP variable E + {x}, x being the only last-outcome operator
\* of a party with children in it, minimal_sparse_equalities holds exactly one
\* row, which states P(E) - sum over the other outcomes o of P(E + {o})
\* - P(E + {x}) = 0; E and every E + {o} are LP variables, and no lookup of
\* a term of any row fails.
C10_NormalizationRows ==
    equalities.computed =>
        /\ \A k \in 1..Len(equalities.rows) : ~equalities.rows[k].row.failed
        /\ \A n \in 1..Len(monomials_as_lexboolvecs) :
              LET variable == monomials_as_lexboolvecs[n]
                  critical == variable \cap last_outcomes_with_children
                  x == CHOOSE r \in critical : TRUE
                  E == variable \ {x}
                  expected(c) ==
                      (IF c \in columns_of_event(E) THEN 1 ELSE 0)
                      - Cardinality({o \in other_outcomes(x) :
                                        c \in columns_of_event(E \cup {o})})
                      - (IF c = n - 1 THEN 1 ELSE 0)
                  mine == {k \in 1..Len(equalities.rows) : equalities.rows[k].of = n - 1}
              IN  Cardinality(critical) = 1 =>
                     /\ Cardinality(columns_of_event(E)) = 1
                     /\ \A o \in other_outcomes(x) :
                           Cardinality(columns_of_event(E \cup {o})) = 1
                     /\ Cardinality(mine) = 1
                     /\ \A k \in mine : \A c \in 0..(Len(monomials_as_lexboolvecs) - 1) :
                           coefficient(equalities.rows[k].row.terms, c) = expected(c)

\* the equalities of an LP in which only the first of two parties has
\* children hold a row for a variable made of an event of the second party
\* and a last outcome of the first
C10_Witness ==
    /\ equalities.computed
    /\ engJob.problem.has_children = <<TRUE, FALSE>>
    /\ ~engJob.include_all_outcomes
    /\ ~engJob.supports_problem
    /\ \E k \in 1..Len(equalities.rows) :
          LET variable == monomials_as_lexboolvecs[equalities.rows[k].of + 1]
          IN  /\ Cardinality(variable \cap last_outcomes_with_children) = 1
              /\ \E r \in variable : party_of(operators[r]) = 2
              /\ Len(equalities.rows[k].row.terms) = 3

-----------------------------------------------------------------------------
(* InflationLP.minimal_sparse_inequalities: the events with every outcome   *)
(* written out, and the row each of them gives                               *)

\* two parties fed by one source of inflation level 1, the first with two
\* settings, the second with three outcomes
LpTwoSettings ==
    [hypergraph |-> << <<1, 1>> >>,
     inflation_levels |-> <<1>>,
     settings |-> <<2, 1>>,
     outcomes |-> <<2, 3>>,
     has_children |-> <<FALSE, FALSE>>]

\* rows[np.argsort(np.matmul(rows, boolvec_for_CG_ineqs))]: by the number of
\* last-outcome operators of childless parties, ties in order
RECURSIVE sort_by_matmul(_, _, _, _)
sort_by_matmul(rows, for_CG_ineqs, count, largest) ==
    IF count > largest THEN <<>>
    ELSE SelectSeq(rows, LAMBDA v : Cardinality(v \cap for_CG_ineqs) = count)
             \o sort_by_matmul(rows, for_CG_ineqs, count + 1, largest)

\* build_raw_lexboolvecs, fanout branch, the list out of Collins-Gisin
\* notation: one operator of every orthogonal group
build_raw_lexboolvecs_global(job) ==
    With(all_ortho_groups_as_boolarrays(job), LAMBDA groups :
    With(Reversed(groups), LAMBDA choices_to_combine_global :
    With(reduce_outer_or(Head(choices_to_combine_global),
                         Tail(choices_to_combine_global)),
         LAMBDA raw_boolvecs_global :
        sort_by_matmul(raw_boolvecs_global, boolvec_for_CG_ineqs(job), 0, Len(groups)))))

\* _generate_lp, lines 203-239: the raw events, self.inverse, the columns and
\* _monomials_as_lexboolvecs_non_CG
generate_lp_columns(job) ==
    With(lp_lexorder(job.problem), LAMBDA lexorder :
    With(lexorder_symmetries(job.problem, lexorder), LAMBDA syms :
    With(build_raw_lexboolvecs(job), LAMBDA raw :
    With(build_raw_lexboolvecs_global(job), LAMBDA raw_non_CG :
    With(discover_inflation_orbits(syms, raw), LAMBDA orb :
    With(flatnonzero(Range(orb)), LAMBDA unique_indices_CG_ :
    With(flatnonzero(Range(discover_inflation_orbits(syms, raw_non_CG))),
         LAMBDA unique_indices_non_CG :
        [lexorder |-> lexorder,
         syms |-> syms,
         raw |-> raw,
         inverse |-> inverse_CG(orb),
         cols |-> [k \in 1..Len(unique_indices_CG_) |-> raw[unique_indices_CG_[k]]],
         non_CG |-> [k \in 1..Len(unique_indices_non_CG) |->
                        raw_non_CG[unique_indices_non_CG[k]]]])))))))

\* the groups zipped with the last-outcome operators in the opposite order
CG_alternatives_of_another_group(job) ==
    With(Reversed(CG_adjusting_ortho_groups_as_boolarrays(job)), LAMBDA groups :
    With(flatnonzero(boolvec_for_CG_ineqs(job)), LAMBDA keys :
        [v \in Range(keys) |->
            With(groups[index_in(keys, v)], LAMBDA r :
                <<{}>> \o SubSeq(r, 1, Len(r) - 1))]))

\* alternatives_as_boolarrays of minimal_sparse_inequalities: for every
\* last-outcome operator of a childless party, np.pad(r[:-1], ((1, 0), (0, 0)))
\* of the group zipped with it
CG_alternatives_as_boolarrays(job) ==
    With(CG_adjusting_ortho_groups_as_boolarrays(job), LAMBDA groups :
    With(flatnonzero(boolvec_for_CG_ineqs(job)), LAMBDA keys :
        [v \in Range(keys) |->
            With(groups[index_in(keys, v)], LAMBDA r :
                <<{}>> \o SubSeq(r, 1, Len(r) - 1))]))

\* the (column, sign) entries written for an event that holds a last-outcome
\* operator of a childless party
inequality_row(alternatives, for_CG_ineqs, raw, inverse_of, bool_vec) ==
    With(bool_vec \cap for_CG_ineqs, LAMBDA critical_boolvec_intersection :
    With(bool_vec \ critical_boolvec_intersection, LAMBDA absent_c_boolvec :
    With(flatnonzero(critical_boolvec_intersection), LAMBDA critical_values_in_boovec :
    With([i \in DOMAIN alternatives |->
             [k \in 1..Len(alternatives[i]) |-> alternatives[i][k] # {}]],
         LAMBDA alternatives_as_signs :
    With(reduce_outer_xor(alternatives_as_signs[Head(critical_values_in_boovec)],
             [n \in 1..(Len(critical_values_in_boovec) - 1) |->
                 alternatives_as_signs[critical_values_in_boovec[n + 1]]]),
         LAMBDA signs :
    With(reduce_outer_or(alternatives[Head(critical_values_in_boovec)],
             [n \in 1..(Len(critical_values_in_boovec) - 1) |->
                 alternatives[critical_values_in_boovec[n + 1]]]), LAMBDA adjustments :
    With([k \in 1..Len(adjustments) |-> absent_c_boolvec \cup adjustments[k]],
         LAMBDA terms_as_boolvecs :
        [k \in 1..Len(terms_as_boolvecs) |->
            [col |-> inverse_of[index_in(raw, terms_as_boolvecs[k])],
             data |-> IF signs[k] THEN -1 ELSE 1]])))))))

-----------------------------------------------------------------------------
(* Specification SpecInequalities: an InflationLP after _generate_lp, then  *)
(* the loop of minimal_sparse_inequalities, one event per step              *)

IneqProblems ==
    LpProblems
    \cup {[LpTwoSettings EXCEPT !.has_children = h] :
            h \in {<<TRUE, FALSE>>, <<FALSE, TRUE>>, <<FALSE, FALSE>>}}
    \cup {[LpChain EXCEPT !.outcomes = <<3, 2>>, !.has_children = h] :
            h \in {<<FALSE, TRUE>>, <<FALSE, FALSE>>}}

IneqJobs ==
    {[problem |-> p, include_all_outcomes |-> o[1], supports_problem |-> o[2]] :
        p \in IneqProblems, o \in {<<FALSE, FALSE>>, <<TRUE, FALSE>>, <<FALSE, TRUE>>}}

InitInequalities ==
    /\ commuting = FALSE
    /\ IdleNotIneq
    /\ \E job \in IneqJobs : \E made \in {generate_lp_columns(job)} :
          /\ ineqJob = job
          /\ ineq_columns = [lexorder |-> made.lexorder, syms |-> made.syms,
                             raw |-> made.raw, inverse |-> made.inverse,
                             cols |-> made.cols]
          /\ non_CG = made.non_CG
          /\ nof_inequalities = 0
          /\ inequalities = <<>>

\* one pass of the loop for an event that holds a last-outcome operator of a
\* childless party
ExpandEvent ==
    /\ boolvec_for_CG_ineqs(ineqJob) # {}
    /\ nof_inequalities < Len(non_CG)
    /\ \E bool_vec \in {non_CG[nof_inequalities + 1]} :
          /\ bool_vec \cap boolvec_for_CG_ineqs(ineqJob) # {}
          /\ inequalities' =
                Append(inequalities,
                       [event |-> bool_vec,
                        terms |-> inequality_row(CG_alternatives_as_boolarrays(ineqJob),
                                                 boolvec_for_CG_ineqs(ineqJob),
                                                 ineq_columns.raw, ineq_columns.inverse,
                                                 bool_vec)])
    /\ nof_inequalities' = nof_inequalities + 1
    /\ UNCHANGED <<commuting, ineqJob, ineq_columns, non_CG, notIneq>>

\* one pass of the loop for an event without such an operator
PlainEvent ==
    /\ boolvec_for_CG_ineqs(ineqJob) # {}
    /\ nof_inequalities < Len(non_CG)
    /\ \E bool_vec \in {non_CG[nof_inequalities + 1]} :
          /\ bool_vec \cap boolvec_for_CG_ineqs(ineqJob) = {}
          /\ inequalities' =
                Append(inequalities,
                       [event |-> bool_vec,
                        terms |-> <<[col |-> ineq_columns.inverse[
                                                index_in(ineq_columns.raw, bool_vec)],
                                     data |-> 1]>>])
    /\ nof_inequalities' = nof_inequalities + 1
    /\ UNCHANGED <<commuting, ineqJob, ineq_columns, non_CG, notIneq>>

NextInequalities ==
    \/ ExpandEvent
    \/ PlainEvent

SpecInequalities == InitInequalities /\ [][NextInequalities]_vars

-----------------------------------------------------------------------------
(* Collins-Gisin inequalities of the LP *)

\* minimal_sparse_inequalities has returned its matrix
inequalities_returned ==
    boolvec_for_CG_ineqs(ineqJob) = {} \/ nof_inequalities = Len(non_CG)

\* the columns (counted from 0) that hold an event or one of its orbit mates
ineq_columns_of_event(event) ==
    {c - 1 : c \in {n \in 1..Len(ineq_columns.cols) :
                       ineq_columns.cols[n]
                          \in symmetric_boolvecs(ineq_columns.syms, event)}}

\* the other outcomes of the measurement of the operator of rank x
ineq_other_outcomes(x) ==
    {r \in 1..Len(ineq_columns.lexorder) :
        /\ r # x
        /\ SubSeq(ineq_columns.lexorder[r], 1, Len(ineq_columns.lexorder[r]) - 1)
              = SubSeq(ineq_columns.lexorder[x], 1, Len(ineq_columns.lexorder[x]) - 1)}

\* the ranks of the last-outcome operators of the childless parties
last_outcomes_childless ==
    {r \in 1..Len(ineq_columns.lexorder) :
        /\ outcome_of(ineq_columns.lexorder[r])
              = ineqJob.problem.outcomes[party_of(ineq_columns.lexorder[r])] - 1
        /\ ~has_children(ineqJob)[party_of(ineq_columns.lexorder[r])]}

\* every way of replacing each operator of K by nothing (0) or by another
\* outcome of its own orthogonal group, as a set of pairs <<operator, choice>>
RECURSIVE replacements(_)
replacements(K) ==
    IF K = {} THEN {{}}
    ELSE LET x == CHOOSE r \in K : TRUE
         IN  {rest \cup {<<x, y>>} :
                 rest \in replacements(K \ {x}), y \in {0} \cup ineq_other_outcomes(x)}

\* the event a replacement turns an event into
replaced(event, K, repl) == (event \ K) \cup {p[2] : p \in {q \in repl : q[2] # 0}}

\* the coefficient the expansion of the product over the operators x of K of
\* (1 - sum of the other outcomes of x), times the rest of the event, gives to
\* column c
expansion(event, K, c) ==
    LET hits == {repl \in replacements(K) :
                    c \in ineq_columns_of_event(replaced(event, K, repl))}
        odd == {repl \in hits : Cardinality({q \in repl : q[2] # 0}) % 2 = 1}
    IN  Cardinality(hits \ odd) - Cardinality(odd)

\* the row made for an event is the expansion over its last-outcome operators
\* of childless parties, every term of which is one LP variable
row_is_expansion(row) ==
    LET K == row.event \cap last_outcomes_childless
    IN  /\ \A repl \in replacements(K) :
              Cardinality(ineq_columns_of_event(replaced(row.event, K, repl))) = 1
        /\ \A c \in 0..(Len(ineq_columns.cols) - 1) :
              coefficient(row.terms, c) = expansion(row.event, K, c)
        /\ K = {} => /\ Len(row.terms) = 1
                     /\ row.terms[1].data = 1

\* C11 (as stated): every full-outcome event has its row in
\* minimal_sparse_inequalities: the expansion over its k >= 1 last outcomes
\* of childless parties, each paired with its own orthogonal group, with
\* coefficient (-1)^(number replaced by an outcome), and a single coefficient
\* +1 for an event without such a last outcome.
C11_EveryEventHasItsRow ==
    inequalities_returned =>
        /\ Len(inequalities) = Len(non_CG)
        /\ \A n \in 1..Len(inequalities) :
              /\ inequalities[n].event = non_CG[n]
              /\ row_is_expansion(inequalities[n])

\* C11 (amended): when some party is childless, the n-th row made is that of
\* the n-th full-outcome event: the expansion over its k >= 1 last outcomes of
\* childless parties, each paired with its own orthogonal group, with
\* coefficient (-1)^(number replaced by an outcome), and a single coefficient
\* +1 when k = 0; when every party has children, as with include_all_outcomes
\* or supports_problem, the matrix has no row at all.
C11_ExpansionRows ==
    /\ Len(inequalities) = nof_inequalities
    /\ \A n \in 1..Len(inequalities) :
          /\ inequalities[n].event = non_CG[n]
          /\ row_is_expansion(inequalities[n])
    /\ inequalities_returned =>
          Len(inequalities) = (IF \E p \in 1..nr_parties(ineqJob.problem) :
                                      ~has_children(ineqJob)[p]
                               THEN Len(non_CG) ELSE 0)

\* the matrix is complete and holds the row of an event with two last
\* outcomes of childless parties, one of them of a measurement with three
\* outcomes: nine terms, among them the event with nothing in their place
C11_Witness ==
    /\ inequalities_returned
    /\ \E n \in 1..Len(inequalities) :
          LET K == inequalities[n].event \cap last_outcomes_childless
          IN  /\ Cardinality(K) >= 2
              /\ \E x \in K : Cardinality(ineq_other_outcomes(x)) = 2
              /\ Len(inequalities[n].terms) >= 6
              /\ \E c \in ineq_columns_of_event(inequalities[n].event \ K) :
                    coefficient(inequalities[n].terms, c) = 1
    /\ \E n \in 1..Len(inequalities) :
          inequalities[n].event \cap last_outcomes_childless = {}

-----------------------------------------------------------------------------
(* Values, bounds, objective and solution of an engine object.               *)
(* A monomial is the set of its atomic factors, the atoms being "a" and "b" *)
(* (knowable), "u" (not knowable) and "x" (an atom of no variable of the    *)
(* program); a dictionary is a function from its keys.  The object is       *)
(* handled as the record of its attributes, with one more field, raised,    *)
(* for the exception that ended the call.                                   *)

OneMon == {}

ZeroMon == {"0"}

\* the atom an operator belongs to: the copies of an operator are one atom
atom_of(op) ==
    CASE op \in {"A_1", "A_2"} -> "a"
      [] op = "B_1" -> "b"
      [] op = "U_1" -> "u"
      [] op = "X_1" -> "x"

\* _sanitise_monomial of a key given as a list of operators
val_sanitise_monomial(key) == {atom_of(key[i]) : i \in 1..Len(key)}

\* InflationSDP.list_of_monomials / InflationLP.monomials
val_monomials(job) ==
    (IF job.engine = "SDP" /\ job.momentmatrix_has_a_zero THEN {ZeroMon} ELSE {})
    \cup {OneMon, {"a"}, {"b"}, {"u"}, {"a", "b"}}

is_atomic(m) == Cardinality(m) <= 1

knowable_q(m) == "u" \notin m

\* len(mon): the number of atomic factors
n_factors(m) == IF m \in {OneMon, ZeroMon} THEN 0 ELSE Cardinality(m)

\* InflationSDP.possibly_physical_monomials
possibly_physical_monomials(job) == val_monomials(job) \ {OneMon, ZeroMon}

\* the dictionary without some keys
Without(dict, keys) ==
    IF (DOMAIN dict) \subseteq keys THEN <<>>
    ELSE [k \in (DOMAIN dict) \ keys |-> dict[k]]

\* dict[sanitise(k)] = v for the items (k, v) in their order
RECURSIVE assign_values(_, _)
assign_values(dict, items) ==
    IF items = <<>> THEN dict
    ELSE assign_values(Bind(dict, {val_sanitise_monomial(Head(items)[1])}, Head(items)[2]),
                       Tail(items))

RECURSIVE ProductOver(_, _)
ProductOver(atoms, value_of) ==
    IF atoms = {} THEN 1
    ELSE LET a == CHOOSE x \in atoms : TRUE
         IN  value_of[a] * ProductOver(atoms \ {a}, value_of)

\* {mon.factors[0]: val for mon, val in known_moments.items() if len(mon) == 1}
atomic_known_moments(known) ==
    [a \in UNION {m \in DOMAIN known : n_factors(m) = 1} |-> known[{a}]]

\* CompoundMonomial.evaluate: the product of the known factors, the factors
\* that are not known, and the status
evaluate(m, atomic_knowns) ==
    With(m \cap DOMAIN atomic_knowns, LAMBDA known_factors :
        [value |-> ProductOver(known_factors, atomic_knowns),
         unknown_factors |-> m \ known_factors,
         known_status |-> IF m \subseteq known_factors THEN "Yes"
                          ELSE IF known_factors # {} THEN "Semi" ELSE "No"])

\* the entries of known_moments and semiknown_moments that the loop over the
\* remaining monomials writes; skip_known: a monomial already in
\* known_moments is left alone
propagate(self, atomic_knowns, remaining, skip_known, lpi) ==
    With({m \in remaining : ~(skip_known /\ m \in DOMAIN self.known_moments)},
         LAMBDA todo :
    With({m \in todo : evaluate(m, atomic_knowns).known_status = "Yes"}, LAMBDA yes :
    With({m \in todo : lpi /\ evaluate(m, atomic_knowns).known_status = "Semi"},
         LAMBDA semi :
        [self EXCEPT
            !.known_moments =
                IF yes = {} THEN self.known_moments
                ELSE [m \in (DOMAIN self.known_moments) \cup yes |->
                         IF m \in yes THEN evaluate(m, atomic_knowns).value
                         ELSE self.known_moments[m]],
            !.semiknown_moments =
                IF semi = {} THEN self.semiknown_moments
                ELSE [m \in (DOMAIN self.semiknown_moments) \cup semi |->
                         IF m \in semi
                         THEN <<evaluate(m, atomic_knowns).value,
                                evaluate(m, atomic_knowns).unknown_factors>>
                         ELSE self.semiknown_moments[m]]])))

\* the known values that are not close to zero become lower bounds 1
supports_lowerbounds(self) ==
    With({m \in DOMAIN self.known_moments : self.known_moments[m] # 0},
         LAMBDA nonzero_known_monomials :
        [self EXCEPT
            !.moment_lowerbounds = Bind(self.moment_lowerbounds, nonzero_known_monomials, 1),
            !.known_moments = Without(self.known_moments, nonzero_known_monomials),
            !.semiknown_moments = <<>>])

(* ---- InflationSDP ---- *)

\* the sum of coeff[m] * value[m] over the monomials m of keys
RECURSIVE substituted(_, _, _)
substituted(keys, coeff, value) ==
    IF keys = {} THEN 0
    ELSE LET m == CHOOSE k \in keys : TRUE
         IN  coeff[m] * value[m] + substituted(keys \ {m}, coeff, value)

\* InflationSDP._update_objective; unpacking the pair stored for a semiknown
\* monomial of the objective as a list of pairs raises TypeError, before
\* _objective_as_name_dict is written
update_objective(self) ==
    With((((DOMAIN self.known_moments) \cap (DOMAIN self.objective)) \ {OneMon}),
         LAMBDA known_keys_to_process :
    With([m \in (DOMAIN self.objective) \ known_keys_to_process |->
             IF m = OneMon
             THEN self.objective[OneMon]
                  + substituted(known_keys_to_process, self.objective, self.known_moments)
             ELSE self.objective[m]],
         LAMBDA processed :
        IF (DOMAIN self.semiknown_moments) \cap (DOMAIN processed) # {}
        THEN [self EXCEPT
                 !.processed_objective = [exists |-> TRUE, dict |-> processed],
                 !.raised = "TypeError"]
        ELSE [self EXCEPT
                 !.processed_objective = [exists |-> TRUE, dict |-> processed],
                 !.objective_as_name_dict = self.objective]))

\* InflationSDP.update_physical_lowerbounds
update_physical_lowerbounds(self) ==
    With((DOMAIN self.moment_lowerbounds) \ (DOMAIN self.known_moments), LAMBDA free :
        [self EXCEPT
            !.processed_moment_lowerbounds =
                IF free = {} THEN self.processed_moment_lowerbounds
                ELSE [m \in (DOMAIN self.processed_moment_lowerbounds) \cup free |->
                         IF m \in free THEN self.moment_lowerbounds[m]
                         ELSE self.processed_moment_lowerbounds[m]]])

\* InflationSDP.cleanup_after_set_values; the name dictionary has the keys of
\* known_moments before and after the supports rule alike
cleanup_after_set_values(job, self) ==
    With(IF job.supports_problem THEN supports_lowerbounds(self) ELSE self, LAMBDA s :
        update_objective(update_physical_lowerbounds(
            [s EXCEPT !.known_moments_name_dict = s.known_moments])))

\* InflationSDP.reset_values
reset_values(job, self) ==
    [self EXCEPT
        !.known_moments = IF job.momentmatrix_has_a_zero
                          THEN Bind(<<>>, {ZeroMon}, 0) ELSE <<>>,
        !.known_moments_name_dict = IF job.momentmatrix_has_a_zero
                                    THEN Bind(<<>>, {ZeroMon}, 0) ELSE <<>>,
        !.semiknown_moments = <<>>,
        !.processed_moment_lowerbounds = <<>>]

\* InflationSDP.set_values
set_values(job, self, values, lpi, normalised, only_knowable_moments, only_specified_values) ==
    With(reset_values(job, self), LAMBDA blank :
    With(IF normalised /\ job.momentmatrix_has_a_one
         THEN [blank EXCEPT !.known_moments = Bind(@, {OneMon}, 1)] ELSE blank,
         LAMBDA started :
        IF values = <<>> THEN cleanup_after_set_values(job, started)
        ELSE With([started EXCEPT
                      !.use_lpi_constraints = lpi,
                      !.known_moments = assign_values(@, values)], LAMBDA given :
            IF ~only_specified_values
               /\ \E k \in DOMAIN given.known_moments : ~is_atomic(k)
            THEN [given EXCEPT !.raised = "Exception"]
            ELSE IF only_knowable_moments
                    /\ \E k \in DOMAIN given.known_moments : ~knowable_q(k)
            THEN [given EXCEPT !.raised = "Exception"]
            ELSE IF only_specified_values THEN cleanup_after_set_values(job, given)
            ELSE cleanup_after_set_values(job,
                    propagate(given, atomic_known_moments(given.known_moments),
                              {m \in val_monomials(job) :
                                  ~is_atomic(m) /\ (only_knowable_moments => knowable_q(m))},
                              TRUE, lpi)))))

\* InflationSDP.reset_objective
reset_objective(self) ==
    [self EXCEPT
        !.objective = Bind(<<>>, {OneMon}, 0),
        !.objective_as_name_dict = Bind(<<>>, {OneMon}, 0),
        !.objective_value = [kind |-> "absent", num |-> 0, text |-> ""],
        !.processed_objective = [exists |-> FALSE, dict |-> <<>>]]

\* the coefficients of the expanded expression, summed per sanitised monomial
RECURSIVE symmetrized_objective(_, _, _)
symmetrized_objective(dict, terms, sign) ==
    IF terms = <<>> THEN dict
    ELSE With(val_sanitise_monomial(Head(terms)[1]), LAMBDA m :
            symmetrized_objective(
                Bind(dict, {m}, (IF m \in DOMAIN dict THEN dict[m] ELSE 0)
                                + sign * Head(terms)[2]),
                Tail(terms), sign))

\* InflationSDP.set_objective; expr.given tells None from an expression, the
\* terms of which are the pairs (monomial, coefficient)
set_objective(self, expr, direction) ==
    With(IF direction = "max" THEN 1 ELSE -1, LAMBDA sign :
    With([reset_objective(self) EXCEPT !.maximize = (direction = "max")], LAMBDA blank :
        IF ~expr.given THEN blank
        ELSE update_objective(
                [blank EXCEPT
                    !.objective =
                        symmetrized_objective(Bind(<<>>, {OneMon}, 0), expr.terms, sign)])))

(* ---- InflationLP ---- *)

absent == [kind |-> "absent", num |-> 0, text |-> ""]

\* InflationLP._reset_solution
lp_reset_solution(self) ==
    [self EXCEPT !.primal_objective = absent,
                 !.objective_value = absent,
                 !.status = "Not yet solved"]

\* a reset that forgets the known values only
lp_reset_known_values_only(self) ==
    [lp_reset_solution(self) EXCEPT !.known_moments = Bind(<<>>, {OneMon}, 1)]

\* InflationLP._reset_values
lp_reset_values(self) ==
    [lp_reset_solution(self) EXCEPT
        !.known_moments = Bind(<<>>, {OneMon}, 1),
        !.semiknown_moments = <<>>,
        !.extra_equalities = <<>>,
        !.extra_inequalities = <<>>]

\* InflationLP._cleanup_after_set_values
lp_cleanup_after_set_values(job, self) ==
    With(IF job.supports_problem THEN supports_lowerbounds(self) ELSE self, LAMBDA s :
        [s EXCEPT !.semiknown_moments = Without(@, DOMAIN s.known_moments)])

\* InflationLP.update_values
update_values(job, self, values, lpi, only_specified_values) ==
    IF values = <<>> THEN self
    ELSE With([lp_reset_solution(self) EXCEPT
                  !.use_lpi_constraints = lpi,
                  !.known_moments = assign_values(@, values)], LAMBDA given :
        IF only_specified_values THEN lp_cleanup_after_set_values(job, given)
        ELSE With(atomic_known_moments(given.known_moments), LAMBDA atomic_knowns :
             With((DOMAIN given.known_moments) \ val_monomials(job),
                  LAMBDA monomials_not_present :
             With([given EXCEPT !.known_moments = Without(@, monomials_not_present)],
                  LAMBDA kept :
             With({m \in val_monomials(job) :
                      /\ ~is_atomic(m)
                      /\ (\A a \in DOMAIN atomic_knowns : knowable_q({a})) => knowable_q(m)},
                  LAMBDA remaining_mons :
                 lp_cleanup_after_set_values(job,
                     propagate(kept, atomic_knowns, remaining_mons, FALSE, lpi)))))))

\* InflationLP.set_values
lp_set_values(job, self, values, lpi, only_specified_values) ==
    IF values = <<>> THEN lp_cleanup_after_set_values(job, lp_reset_values(self))
    ELSE update_values(job, lp_reset_values(self), values, lpi, only_specified_values)


\* InflationLP.set_objective; _sanitize_dict drops the coefficients close to
\* zero and sums the others per sanitised monomial
lp_set_objective(job, self, expr, direction) ==
    IF job.supports_problem /\ expr.given THEN [self EXCEPT !.raised = "AssertionError"]
    ELSE With([lp_reset_solution(self) EXCEPT
                  !.objective = <<>>,
                  !.maximize = (direction = "max")], LAMBDA blank :
        IF ~expr.given THEN blank
        ELSE With(symmetrized_objective(<<>>, SelectSeq(expr.terms, LAMBDA t : t[2] # 0),
                                        IF direction = "max" THEN 1 ELSE -1),
                  LAMBDA sanitized :
            [blank EXCEPT
                !.objective = sanitized,
                !.raised = IF (DOMAIN sanitized) \subseteq val_monomials(job)
                           THEN "" ELSE "AssertionError"]))

\* the loop of _set_upperbounds / _set_lowerbounds: failed when a monomial
\* comes again with another bound
RECURSIVE sanitized_bounds(_, _)
sanitized_bounds(made, items) ==
    IF items = <<>> \/ made.failed THEN made
    ELSE With(val_sanitise_monomial(Head(items)[1]), LAMBDA m :
            sanitized_bounds(
                IF m \notin DOMAIN made.dict
                THEN [made EXCEPT !.dict = Bind(@, {m}, Head(items)[2])]
                ELSE [made EXCEPT !.failed = (made.dict[m] # Head(items)[2])],
                Tail(items)))

\* InflationLP.set_bounds
set_bounds(self, bounds, bound_type) ==
    With(sanitized_bounds([dict |-> <<>>, failed |-> FALSE], bounds.items), LAMBDA made :
    With(IF ~bounds.given THEN <<>> ELSE made.dict, LAMBDA new :
    With(IF bounds.given /\ made.failed THEN "AssertionError" ELSE "", LAMBDA error :
        IF bound_type = "up"
        THEN [lp_reset_solution(self) EXCEPT
                 !.moment_upperbounds = IF error = "" THEN new ELSE <<>>,
                 !.raised = error]
        ELSE [lp_reset_solution(self) EXCEPT
                 !.moment_lowerbounds = IF error = "" THEN new ELSE <<>>,
                 !.raised = error])))

\* InflationLP.solve with the answer of the solver
lp_solve(job, self, solution_object) ==
    IF ~((DOMAIN self.known_moments) \subseteq val_monomials(job))
    THEN [self EXCEPT !.raised = "AssertionError"]
    ELSE [self EXCEPT
             !.status = solution_object.status,
             !.primal_objective =
                 IF solution_object.success
                 THEN [kind |-> "number", num |-> solution_object.primal_value, text |-> ""]
                 ELSE [kind |-> "status", num |-> 0, text |-> solution_object.status],
             !.objective_value =
                 IF solution_object.success
                 THEN [kind |-> "number",
                       num |-> solution_object.primal_value
                               * (IF self.maximize THEN 1 ELSE -1),
                       text |-> ""]
                 ELSE [kind |-> "status", num |-> 0, text |-> solution_object.status]]

\* [self._sanitize_dict(eq) for eq in extra]: the coefficients close to zero
\* dropped, the others summed per sanitised monomial
sanitized_constraints(extra) ==
    [i \in DOMAIN extra |->
        symmetrized_objective(<<>>, SelectSeq(extra[i], LAMBDA t : t[2] # 0), 1)]

\* InflationLP.set_extra_equalities; None and the empty list leave the list
\* empty
set_extra_equalities(self, extra) ==
    [self EXCEPT !.extra_equalities = IF ~extra.given \/ extra.list = <<>>
                                      THEN <<>>
                                      ELSE sanitized_constraints(extra.list)]

\* InflationLP.set_extra_inequalities
set_extra_inequalities(self, extra) ==
    [self EXCEPT !.extra_inequalities = IF ~extra.given \/ extra.list = <<>>
                                        THEN <<>>
                                        ELSE sanitized_constraints(extra.list)]

\* InflationSDP.solve with the answer of solveSDP_MosekFUSION
solve(job, self, lambdaval, solver_status) ==
    IF ~((DOMAIN self.known_moments_name_dict) \subseteq val_monomials(job))
    THEN [self EXCEPT !.raised = "AssertionError"]
    ELSE IF solver_status = "feasible"
    THEN [self EXCEPT
             !.status = solver_status,
             !.primal_objective = [kind |-> "number", num |-> lambdaval, text |-> ""],
             !.objective_value =
                 [kind |-> "number",
                  num |-> lambdaval * (IF self.maximize THEN 1 ELSE -1),
                  text |-> ""]]
    ELSE [self EXCEPT !.status = solver_status]

-----------------------------------------------------------------------------
(* Specification SpecValuation: an engine object after its construction,    *)
(* then any sequence of calls that set values, bounds, objective, or solve  *)

ValJobs ==
    {[engine |-> "SDP", supports_problem |-> s, momentmatrix_has_a_zero |-> ~s,
      momentmatrix_has_a_one |-> TRUE] : s \in BOOLEAN}
    \cup {[engine |-> "LP", supports_problem |-> s, momentmatrix_has_a_zero |-> FALSE,
           momentmatrix_has_a_one |-> TRUE] : s \in BOOLEAN}

\* dictionaries of values or bounds, as the list of their items; a key is a
\* list of operators
ValueDicts ==
    {<<>>,
     << <<<<"A_1">>, 1>>, <<<<"B_1">>, 0>> >>,
     << <<<<"B_1">>, 1>> >>,
     << <<<<"B_1", "A_1">>, 1>> >>,
     << <<<<"X_1">>, 1>>, <<<<"B_1">>, 1>> >>,
     << <<<<"A_1">>, 1>>, <<<<"A_2">>, 2>> >>}

\* the marginals of the knowable atoms under a distribution
Distributions ==
    {[given |-> FALSE, marginal |-> <<>>],
     [given |-> TRUE, marginal |-> [a \in {"a", "b"} |-> IF a = "a" THEN 2 ELSE 0]]}

\* {m: m.compute_marginal(prob_array) for the knowable atomic monomials}
knowable_values(prob_array) ==
    IF ~prob_array.given THEN <<>>
    ELSE << <<<<"A_1">>, prob_array.marginal["a"]>>,
            <<<<"B_1">>, prob_array.marginal["b"]>> >>

\* objectives with the direction of the optimization
Objectives ==
    {[given |-> FALSE, terms |-> <<>>, direction |-> "max"],
     [given |-> TRUE, terms |-> << <<<<"B_1", "A_2">>, 1>>, <<<<"B_1">>, 2>> >>,
      direction |-> "min"]}

BoundDicts ==
    {[given |-> FALSE, items |-> <<>>]}
    \cup {[given |-> TRUE, items |-> d] :
            d \in {<< <<<<"A_1">>, 1>>, <<<<"A_2">>, 2>> >>,
                   << <<<<"A_1">>, 1>>, <<<<"A_2">>, 1>> >>}}

\* lists of extra constraints, each constraint the list of its terms
ExtraConstraints ==
    {[given |-> FALSE, list |-> <<>>],
     [given |-> TRUE, list |-> << << <<<<"A_1">>, 1>>, <<<<"B_1">>, -1>> >> >>]}

\* the values the solver may return as the optimum
SolverValues == {1}

\* the object as the record of its attributes, no exception raised
Self ==
    [known_moments |-> known_moments,
     known_moments_name_dict |-> known_moments_name_dict,
     semiknown_moments |-> semiknown_moments,
     moment_lowerbounds |-> moment_lowerbounds,
     moment_upperbounds |-> moment_upperbounds,
     processed_moment_lowerbounds |-> processed_moment_lowerbounds,
     objective |-> objective,
     processed_objective |-> processed_objective,
     maximize |-> maximize,
     use_lpi_constraints |-> use_lpi_constraints,
     status |-> status,
     primal_objective |-> primal_objective,
     objective_value |-> objective_value,
     objective_as_name_dict |-> objective_as_name_dict,
     extra_equalities |-> extra_equalities,
     extra_inequalities |-> extra_inequalities,
     raised |-> ""]

\* the attributes of the object become those of the record
Becomes(made) ==
    /\ known_moments' = made.known_moments
    /\ known_moments_name_dict' = made.known_moments_name_dict
    /\ semiknown_moments' = made.semiknown_moments
    /\ moment_lowerbounds' = made.moment_lowerbounds
    /\ moment_upperbounds' = made.moment_upperbounds
    /\ processed_moment_lowerbounds' = made.processed_moment_lowerbounds
    /\ objective' = made.objective
    /\ processed_objective' = made.processed_objective
    /\ maximize' = made.maximize
    /\ use_lpi_constraints' = made.use_lpi_constraints
    /\ status' = made.status
    /\ primal_objective' = made.primal_objective
    /\ objective_value' = made.objective_value
    /\ objective_as_name_dict' = made.objective_as_name_dict
    /\ extra_equalities' = made.extra_equalities
    /\ extra_inequalities' = made.extra_inequalities

\* the record of a call: its name, the exception it raised, and whether
\* set_values and set_distribution are the only calls made since construction
call(op, raised) ==
    [op |-> op, raised |-> raised,
     valuations_only |-> last_call.valuations_only
                         /\ op \in {"set_values", "set_distribution"}]

\* the attributes before the calls that end __init__ / _generate_lp
constructed(job) ==
    [known_moments |-> <<>>,
     known_moments_name_dict |-> <<>>,
     semiknown_moments |-> <<>>,
     moment_lowerbounds |-> IF job.engine = "SDP"
                            THEN [m \in possibly_physical_monomials(job) |-> 0]
                            ELSE <<>>,
     moment_upperbounds |-> <<>>,
     processed_moment_lowerbounds |-> <<>>,
     objective |-> <<>>,
     processed_objective |-> [exists |-> FALSE, dict |-> <<>>],
     maximize |-> TRUE,
     use_lpi_constraints |-> FALSE,
     status |-> IF job.engine = "SDP" THEN "" ELSE "Not yet solved",
     primal_objective |-> absent,
     objective_value |-> absent,
     objective_as_name_dict |-> <<>>,
     extra_equalities |-> <<>>,
     extra_inequalities |-> <<>>,
     raised |-> ""]

\* the object at the end of generate_relaxation (set_objective(None),
\* set_values(None)) and of _generate_lp (the bounds, the objective and the
\* values set to None)
after_generation(job) ==
    IF job.engine = "SDP"
    THEN set_values(job,
             set_objective(constructed(job), [given |-> FALSE, terms |-> <<>>], "max"),
             <<>>, FALSE, TRUE, TRUE, FALSE)
    ELSE lp_set_values(job,
             lp_set_objective(job,
                 set_bounds(
                     set_bounds(constructed(job), [given |-> FALSE, items |-> <<>>], "lo"),
                     [given |-> FALSE, items |-> <<>>], "up"),
                 [given |-> FALSE, terms |-> <<>>], "max"),
             <<>>, FALSE, FALSE)

InitValuation ==
    /\ commuting = FALSE
    /\ IdleNotVal
    /\ \E job \in ValJobs :
          /\ valJob = job
          /\ \E made \in {after_generation(job)} :
                /\ made.raised = ""
                /\ known_moments = made.known_moments
                /\ known_moments_name_dict = made.known_moments_name_dict
                /\ semiknown_moments = made.semiknown_moments
                /\ moment_lowerbounds = made.moment_lowerbounds
                /\ moment_upperbounds = made.moment_upperbounds
                /\ processed_moment_lowerbounds = made.processed_moment_lowerbounds
                /\ objective = made.objective
                /\ processed_objective = made.processed_objective
                /\ maximize = made.maximize
                /\ use_lpi_constraints = made.use_lpi_constraints
                /\ status = made.status
                /\ primal_objective = made.primal_objective
                /\ objective_value = made.objective_value
                /\ objective_as_name_dict = made.objective_as_name_dict
                /\ extra_equalities = made.extra_equalities
                /\ extra_inequalities = made.extra_inequalities
    /\ last_call = [op |-> "__init__", raised |-> "", valuations_only |-> TRUE]

\* InflationSDP.reset_values() / InflationLP.reset("values")
ResetValues ==
    /\ \E made \in {IF valJob.engine = "SDP" THEN reset_values(valJob, Self)
                    ELSE lp_reset_values(Self)} :
          /\ Becomes(made)
          /\ last_call' = call("reset_values", made.raised)
    /\ UNCHANGED <<commuting, valJob, notVal>>

\* InflationSDP.set_values(values, ...), normalised and only_knowable_moments
\* left at their defaults
SetValues ==
    /\ valJob.engine = "SDP"
    /\ \E values \in ValueDicts, lpi \in BOOLEAN, only_specified_values \in BOOLEAN :
          \E made \in {set_values(valJob, Self, values, lpi, TRUE, TRUE,
                                  only_specified_values)} :
              /\ Becomes(made)
              /\ last_call' = call("set_values", made.raised)
    /\ UNCHANGED <<commuting, valJob, notVal>>

\* InflationSDP.set_distribution(prob_array, ...), shared randomness not assumed
SetDistribution ==
    /\ valJob.engine = "SDP"
    /\ \E prob_array \in Distributions, lpi \in BOOLEAN :
          \E made \in {set_values(valJob, Self, knowable_values(prob_array), lpi, TRUE,
                                  ~lpi, FALSE)} :
              /\ Becomes(made)
              /\ last_call' = call("set_distribution", made.raised)
    /\ UNCHANGED <<commuting, valJob, notVal>>

\* InflationSDP.set_objective(objective, direction)
SetObjective ==
    /\ valJob.engine = "SDP"
    /\ \E expr \in Objectives :
          \E made \in {set_objective(Self, expr, expr.direction)} :
              /\ Becomes(made)
              /\ last_call' = call("set_objective", made.raised)
    /\ UNCHANGED <<commuting, valJob, notVal>>

\* InflationSDP.solve()
Solve ==
    /\ valJob.engine = "SDP"
    /\ \E lambdaval \in SolverValues, solver_status \in {"feasible", "infeasible"} :
          \E made \in {solve(valJob, Self, lambdaval, solver_status)} :
              /\ Becomes(made)
              /\ last_call' = call("solve", made.raised)
    /\ UNCHANGED <<commuting, valJob, notVal>>

\* InflationLP.set_values(values, ...)
LpSetValues ==
    /\ valJob.engine = "LP"
    /\ \E values \in ValueDicts, lpi \in BOOLEAN, only_specified_values \in BOOLEAN :
          \E made \in {lp_set_values(valJob, Self, values, lpi, only_specified_values)} :
              /\ Becomes(made)
              /\ last_call' = call("set_values", made.raised)
    /\ UNCHANGED <<commuting, valJob, notVal>>

\* InflationLP.update_values(values, ...)
LpUpdateValues ==
    /\ valJob.engine = "LP"
    /\ \E values \in ValueDicts, lpi \in BOOLEAN, only_specified_values \in BOOLEAN :
          \E made \in {update_values(valJob, Self, values, lpi, only_specified_values)} :
              /\ Becomes(made)
              /\ last_call' = call("update_values", made.raised)
    /\ UNCHANGED <<commuting, valJob, notVal>>

\* InflationLP.set_distribution(prob_array, ...), shared randomness not assumed
LpSetDistribution ==
    /\ valJob.engine = "LP"
    /\ \E prob_array \in Distributions, lpi \in BOOLEAN :
          \E made \in {lp_set_values(valJob, Self, knowable_values(prob_array), lpi,
                                     FALSE)} :
              /\ Becomes(made)
              /\ last_call' = call("set_distribution", made.raised)
    /\ UNCHANGED <<commuting, valJob, notVal>>

\* InflationLP.set_objective(objective, direction)
LpSetObjective ==
    /\ valJob.engine = "LP"
    /\ \E expr \in Objectives :
          \E made \in {lp_set_objective(valJob, Self, expr, expr.direction)} :
              /\ Becomes(made)
              /\ last_call' = call("set_objective", made.raised)
    /\ UNCHANGED <<commuting, valJob, notVal>>

\* InflationLP.set_bounds(bounds, bound_type)
LpSetBounds ==
    /\ valJob.engine = "LP"
    /\ \E bounds \in BoundDicts, bound_type \in {"up", "lo"} :
          \E made \in {set_bounds(Self, bounds, bound_type)} :
              /\ Becomes(made)
              /\ last_call' = call("set_bounds", made.raised)
    /\ UNCHANGED <<commuting, valJob, notVal>>

\* InflationLP.solve()
LpSolve ==
    /\ valJob.engine = "LP"
    /\ \E solution_object \in
            {[success |-> TRUE, status |-> "feasible", primal_value |-> v] :
                v \in SolverValues}
            \cup {[success |-> FALSE, status |-> "infeasible", primal_value |-> 0]} :
          \E made \in {lp_solve(valJob, Self, solution_object)} :
              /\ Becomes(made)
              /\ last_call' = call("solve", made.raised)
    /\ UNCHANGED <<commuting, valJob, notVal>>

\* InflationLP.set_extra_equalities(extra_equalities)
LpSetExtraEqualities ==
    /\ valJob.engine = "LP"
    /\ \E extra \in ExtraConstraints :
          \E made \in {set_extra_equalities(Self, extra)} :
              /\ Becomes(made)
              /\ last_call' = call("set_extra_equalities", made.raised)
    /\ UNCHANGED <<commuting, valJob, notVal>>

\* InflationLP.set_extra_inequalities(extra_inequalities)
LpSetExtraInequalities ==
    /\ valJob.engine = "LP"
    /\ \E extra \in ExtraConstraints :
          \E made \in {set_extra_inequalities(Self, extra)} :
              /\ Becomes(made)
              /\ last_call' = call("set_extra_inequalities", made.raised)
    /\ UNCHANGED <<commuting, valJob, notVal>>

NextValuation ==
    \/ ResetValues
    \/ SetValues
    \/ SetDistribution
    \/ SetObjective
    \/ Solve
    \/ LpSetValues
    \/ LpUpdateValues
    \/ LpSetDistribution
    \/ LpSetObjective
    \/ LpSetBounds
    \/ LpSolve

SpecValuation == InitValuation /\ [][NextValuation]_vars

(* Specification SpecConstraints: an InflationLP after _generate_lp, then    *)
(* any sequence of calls, those that set extra constraints included         *)

InitConstraints ==
    /\ InitValuation
    /\ valJob.engine = "LP"
    /\ ~valJob.supports_problem

NextConstraints ==
    \/ LpSetValues
    \/ LpUpdateValues
    \/ LpSetDistribution
    \/ LpSetObjective
    \/ LpSetBounds
    \/ LpSolve
    \/ LpSetExtraEqualities
    \/ LpSetExtraInequalities

SpecConstraints == InitConstraints /\ [][NextConstraints]_vars

-----------------------------------------------------------------------------
(* Properties of SpecValuation                                               *)

\* the monomials other than the constants 1 and 0
non_constant(mons) == mons \ {OneMon, ZeroMon}

\* the call that was made last was one of ops and ended without an exception
returned_from(ops) == last_call.op \in ops /\ last_call.raised = ""

substituted_objective ==
    With((((DOMAIN known_moments) \cap (DOMAIN objective)) \ {OneMon}), LAMBDA known_keys :
    With(((DOMAIN semiknown_moments) \cap (DOMAIN objective)) \ known_keys,
         LAMBDA semiknown_keys :
        [m \in ((DOMAIN objective) \ (known_keys \cup semiknown_keys))
               \cup {semiknown_moments[s][2] : s \in semiknown_keys} |->
            (IF m \in (DOMAIN objective) \ (known_keys \cup semiknown_keys)
             THEN objective[m] ELSE 0)
            + (IF m = OneMon THEN substituted(known_keys, objective, known_moments) ELSE 0)
            + substituted({s \in semiknown_keys : semiknown_moments[s][2] = m}, objective,
                          [s \in semiknown_keys |-> semiknown_moments[s][1]])]))

\* C13 as stated: after set_objective, set_values or set_distribution on an
\* InflationSDP the processed objective is the objective with the known and
\* the semiknown monomials substituted, and computing it raises no error.
C13_ProcessedObjective ==
    (valJob.engine = "SDP"
     /\ last_call.op \in {"set_objective", "set_values", "set_distribution"}) =>
        /\ last_call.raised # "TypeError"
        /\ (last_call.raised = "" /\ processed_objective.exists) =>
              processed_objective.dict = substituted_objective


\* a dictionary with a key that is no variable of the program, and the
\* dictionary without that entry
values_with_stranger == << <<<<"X_1">>, 1>>, <<<<"B_1">>, 1>> >>

values_without_stranger == << <<<<"B_1">>, 1>> >>

\* C14 as stated: an entry for a monomial that is no variable of the program
\* is discarded - no key of known_moments is outside the program's monomials,
\* a call with the entry does what the call without it does, and no solve is
\* rejected for the values it is given - whatever only_specified_values and
\* use_lpi_constraints are.
C14_UnknownMonomialDiscarded ==
    /\ (DOMAIN known_moments) \subseteq val_monomials(valJob)
    /\ last_call.op = "solve" => last_call.raised # "AssertionError"
    /\ \A lpi \in BOOLEAN, only_specified_values \in BOOLEAN :
          IF valJob.engine = "SDP"
          THEN set_values(valJob, Self, values_with_stranger, lpi, TRUE, TRUE,
                          only_specified_values)
               = set_values(valJob, Self, values_without_stranger, lpi, TRUE, TRUE,
                            only_specified_values)
          ELSE /\ lp_set_values(valJob, Self, values_with_stranger, lpi,
                                only_specified_values)
                  = lp_set_values(valJob, Self, values_without_stranger, lpi,
                                  only_specified_values)
               /\ update_values(valJob, Self, values_with_stranger, lpi,
                                only_specified_values)
                  = update_values(valJob, Self, values_without_stranger, lpi,
                                  only_specified_values)


\* a dictionary with a key of two atomic factors
values_with_compound == << <<<<"B_1", "A_1">>, 1>> >>

\* C15 as stated: with only_specified_values = False a dictionary with a
\* non-atomic key makes set_values and update_values end in an error, and
\* the call assigns no value.
C15_NonAtomicKeyRejected ==
    \A lpi \in BOOLEAN :
        IF valJob.engine = "SDP"
        THEN \E made \in {set_values(valJob, Self, values_with_compound, lpi, TRUE, TRUE,
                                     FALSE)} :
                /\ made.raised # ""
                /\ val_sanitise_monomial(values_with_compound[1][1])
                       \notin DOMAIN made.known_moments
        ELSE /\ \E made \in {lp_set_values(valJob, Self, values_with_compound, lpi, FALSE)} :
                   /\ made.raised # ""
                   /\ val_sanitise_monomial(values_with_compound[1][1])
                          \notin DOMAIN made.known_moments
             /\ \E made \in {update_values(valJob, Self, values_with_compound, lpi, FALSE)} :
                   /\ made.raised # ""
                   /\ made.known_moments = known_moments

\* two keys that sanitise to one monomial, with different and with equal
\* numbers
items_in_contradiction == << <<<<"A_1">>, 1>>, <<<<"A_2">>, 2>> >>

items_in_agreement == << <<<<"A_1">>, 1>>, <<<<"A_2">>, 1>> >>

\* C16 as stated: a dictionary of bounds or of values in which two keys
\* sanitise to the same monomial with different numbers makes the call
\* raise, and one in which they come with equal numbers is accepted (the
\* TypeError of the processed objective is no rejection of the values).
C16_ContradictionIsFatal ==
    /\ valJob.engine = "LP" =>
          \A bound_type \in {"up", "lo"} :
              /\ set_bounds(Self, [given |-> TRUE, items |-> items_in_contradiction],
                            bound_type).raised # ""
              /\ set_bounds(Self, [given |-> TRUE, items |-> items_in_agreement],
                            bound_type).raised = ""
    /\ \A lpi \in BOOLEAN, only_specified_values \in BOOLEAN :
          IF valJob.engine = "SDP"
          THEN /\ set_values(valJob, Self, items_in_contradiction, lpi, TRUE, TRUE,
                             only_specified_values).raised # ""
               /\ set_values(valJob, Self, items_in_agreement, lpi, TRUE, TRUE,
                             only_specified_values).raised
                  \in {"", "TypeError"}
          ELSE /\ lp_set_values(valJob, Self, items_in_contradiction, lpi,
                                only_specified_values).raised # ""
               /\ update_values(valJob, Self, items_in_contradiction, lpi,
                                only_specified_values).raised # ""
               /\ lp_set_values(valJob, Self, items_in_agreement, lpi,
                                only_specified_values).raised = ""
               /\ update_values(valJob, Self, items_in_agreement, lpi,
                                only_specified_values).raised = ""

\* what one valuation call makes of a newly generated object
fresh_valuations(job) ==
    {IF job.engine = "SDP"
     THEN set_values(job, after_generation(job), values, lpi, TRUE, only_knowable_moments,
                     only_specified_values)
     ELSE lp_set_values(job, after_generation(job), values, lpi, only_specified_values) :
        values \in ValueDicts \cup {knowable_values(p) : p \in Distributions},
        lpi \in BOOLEAN, only_knowable_moments \in BOOLEAN,
        only_specified_values \in BOOLEAN}

\* C17 as stated: in supports mode, after set_values and set_distribution
\* calls only, no monomial of known value 0 has the lower bound 1, and the
\* lower bounds and known values are those that one call on a newly
\* generated object leaves.
C17_SupportsBoundsOfLastCall ==
    (valJob.supports_problem /\ last_call.valuations_only
     /\ returned_from({"set_values", "set_distribution"})) =>
        /\ \A m \in (DOMAIN known_moments) \cap (DOMAIN moment_lowerbounds) :
              known_moments[m] = 0 => moment_lowerbounds[m] # 1
        /\ \E made \in fresh_valuations(valJob) :
              /\ made.raised = ""
              /\ made.moment_lowerbounds = moment_lowerbounds
              /\ made.known_moments = known_moments

\* C18 as stated: after a solve call whose solver run did not succeed,
\* primal_objective and objective_value hold the status of that run.
C18_FailedSolveShowsStatus ==
    (returned_from({"solve"}) /\ status # "feasible") =>
        /\ primal_objective = [kind |-> "status", num |-> 0, text |-> status]
        /\ objective_value = [kind |-> "status", num |-> 0, text |-> status]

-----------------------------------------------------------------------------
(* Properties of SpecColumns: the generating set of NPA levels and of party *)
(* blocks                                                                    *)

contribution(scn, block) ==
    IF block = <<>> THEN {}
    ELSE {canon.array :
             canon \in {c \in {column_canon(m, commuting) :
                                  m \in Range(block_products(scn, block))} :
                           /\ ~c.is_scalar_zero
                           /\ ~is_zero_array(c.array)
                           /\ Len(c.array) = Len(block)}}

\* C20: the monomials _build_cols_from_specs returns, the identity apart, are
\* the non-zero canonical products of the blocks whose canonical form has as
\* many operators as the block, each once; a product that shortens is not
\* returned as a shorter monomial unless a block of that length yields it;
\* for one party with two settings and two outcomes the blocks [[],[0,0]]
\* return the unit, A_x0*A_x1 and A_x1*A_x0 (with commuting operators the two
\* products are one monomial, returned once).
C20_BlockContribution ==
    /\ (columns.returned /\ column_specification.style \in helper_styles) =>
          /\ Range(columns.cols) \ {identity_operator}
             = UNION {contribution(scenario_of(colScn), col_specs[b]) :
                         b \in 1..Len(col_specs)}
          /\ \A i, j \in 1..Len(columns.cols) :
                (i # j /\ columns.cols[i] # identity_operator)
                    => columns.cols[i] # columns.cols[j]
    /\ (columns.returned /\ colScn = "OneParty"
        /\ column_specification.blocks = << <<>>, <<0, 0>> >>) =>
          columns.cols = IF commuting
                         THEN <<identity_operator,
                                <<<<1, 1, 0, 0>>, <<1, 1, 1, 0>>>> >>
                         ELSE <<identity_operator,
                                <<<<1, 1, 0, 0>>, <<1, 1, 1, 0>>>>,
                                <<<<1, 1, 1, 0>>, <<1, 1, 0, 0>>>> >>

\* the blocks [[],[0,0]] of one party have been done: three generators, the
\* squares A_x0*A_x0 and A_x1*A_x1 having been met and left out
C20_Witness ==
    /\ columns.returned
    /\ colScn = "OneParty"
    /\ column_specification.blocks = << <<>>, <<0, 0>> >>
    /\ ~commuting
    /\ Len(columns.cols) = 3
    /\ \E k \in 1..Len(block_products(OneParty, <<0, 0>>)) :
          With(block_products(OneParty, <<0, 0>>)[k], LAMBDA m :
              m[1] = m[2] /\ Len(column_canon(m, commuting).array) = 1)


\* the dictionaries of values that are not empty
given_values == ValueDicts \ {<<>>}

\* C24 as stated: a valuation call made with use_lpi_constraints = False
\* leaves no semiknown monomial, and no monomial is a key of known_moments
\* and of semiknown_moments at the same time.
C24_SemiknownOnlyUnderLpi ==
    /\ (DOMAIN known_moments) \cap (DOMAIN semiknown_moments) = {}
    /\ DOMAIN semiknown_moments # {} => use_lpi_constraints
    /\ \A values \in given_values, only_specified_values \in BOOLEAN :
          IF valJob.engine = "SDP"
          THEN DOMAIN set_values(valJob, Self, values, FALSE, TRUE, TRUE,
                                 only_specified_values).semiknown_moments = {}
          ELSE /\ DOMAIN lp_set_values(valJob, Self, values, FALSE,
                                       only_specified_values).semiknown_moments = {}
               /\ DOMAIN update_values(valJob, Self, values, FALSE,
                                       only_specified_values).semiknown_moments = {}

\* InflationLP.solve, the relaxation flags handed to solveLP: the check of the
\* objective comes first, the keyword feas_as_optim of solver_arguments
\* ("absent" when not passed) is read after it
lp_solver_relaxation(self, relax_known_vars, relax_inequalities, feas_as_optim) ==
    With(IF (relax_known_vars \/ relax_inequalities) /\ Cardinality(DOMAIN self.objective) > 0
         THEN <<FALSE, FALSE>>
         ELSE <<relax_known_vars, relax_inequalities>>, LAMBDA checked :
        IF feas_as_optim = "absent"
        THEN [relax_known_vars |-> checked[1], relax_inequalities |-> checked[2]]
        ELSE [relax_known_vars |-> feas_as_optim = "True",
              relax_inequalities |-> feas_as_optim = "True"])

\* InflationSDP.solve, the flag feas_as_optim handed to solveSDP
solver_feas_as_optim(self, feas_as_optim) ==
    IF feas_as_optim /\ Cardinality(DOMAIN self.objective_as_name_dict) > 1
    THEN FALSE
    ELSE feas_as_optim

\* C23 as stated: with a non-trivial objective set, whatever relaxation the
\* caller of solve asks for, the legacy keyword feas_as_optim included, the
\* solver is called with relax_known_vars = relax_inequalities = False (LP)
\* or with feas_as_optim = False (SDP).
C23_ObjectiveNeverRelaxed ==
    IF valJob.engine = "LP"
    THEN DOMAIN objective # {} =>
            \A relax_known_vars \in BOOLEAN, relax_inequalities \in BOOLEAN,
               feas_as_optim \in {"absent", "True", "False"} :
                lp_solver_relaxation(Self, relax_known_vars, relax_inequalities, feas_as_optim)
                    = [relax_known_vars |-> FALSE, relax_inequalities |-> FALSE]
    ELSE (DOMAIN objective) \ {OneMon} # {} =>
            \A feas_as_optim \in BOOLEAN : ~solver_feas_as_optim(Self, feas_as_optim)


\* the bounds, the objective and the extra constraints of the object are
\* those of the record
same_frame(made) ==
    /\ made.moment_lowerbounds = moment_lowerbounds
    /\ made.moment_upperbounds = moment_upperbounds
    /\ made.objective = objective
    /\ made.maximize = maximize
    /\ made.extra_equalities = extra_equalities
    /\ made.extra_inequalities = extra_inequalities

\* C26 as stated: outside supports mode, InflationLP.set_values,
\* update_values and set_distribution leave the lower and upper bounds, the
\* objective and the extra equalities and inequalities as they were.
C26_ValuationLeavesConstraints ==
    valJob.engine = "LP" /\ ~valJob.supports_problem =>
        /\ \A values \in ValueDicts, lpi \in BOOLEAN, only_specified_values \in BOOLEAN :
              /\ same_frame(lp_set_values(valJob, Self, values, lpi, only_specified_values))
              /\ same_frame(update_values(valJob, Self, values, lpi, only_specified_values))
        /\ \A prob_array \in Distributions, lpi \in BOOLEAN :
              same_frame(lp_set_values(valJob, Self, knowable_values(prob_array), lpi, FALSE))


\* InflationLP.certificate_as_dict, as far as it raises: solution_object is
\* assigned by solve with status and deleted by _reset_solution with status,
\* so it is absent exactly when no status of a solver is stored
certificate_as_dict(self) ==
    IF self.status \in {"", "Not yet solved"}
    THEN [self EXCEPT !.raised = "Exception"]
    ELSE self

\* what the next solve is about
problem_data(self) ==
    <<self.known_moments, self.semiknown_moments, self.moment_lowerbounds,
      self.moment_upperbounds, self.objective, self.maximize,
      self.extra_equalities, self.extra_inequalities>>

\* no result of a solve can be read from the object
exposes_no_result(self) ==
    /\ self.status \in {"", "Not yet solved"}
    /\ self.primal_objective = absent
    /\ self.objective_value = absent
    /\ certificate_as_dict(self).raised = "Exception"

\* the objects a call that sets values, bounds, the objective or extra
\* constraints can make of the object
after_a_change ==
    IF valJob.engine = "LP"
    THEN UNION {{lp_set_values(valJob, Self, values, lpi, FALSE),
                 update_values(valJob, Self, values, lpi, FALSE)} :
                    values \in ValueDicts, lpi \in BOOLEAN}
         \cup {lp_set_objective(valJob, Self, expr, expr.direction) : expr \in Objectives}
         \cup {set_bounds(Self, bounds, bound_type) :
                    bounds \in BoundDicts, bound_type \in {"up", "lo"}}
         \cup {set_extra_equalities(Self, extra) : extra \in ExtraConstraints}
         \cup {set_extra_inequalities(Self, extra) : extra \in ExtraConstraints}
    ELSE {set_values(valJob, Self, values, lpi, TRUE, TRUE, FALSE) :
                    values \in ValueDicts, lpi \in BOOLEAN}
         \cup {set_objective(Self, expr, expr.direction) : expr \in Objectives}

\* C27 as stated: once a call has changed values, bounds, the objective or
\* the extra constraints, no result of an earlier solve can be read: status
\* is 'Not yet solved', primal_objective and objective_value are absent and
\* the certificate methods raise.
C27_NoStaleSolution ==
    \A made \in after_a_change :
        problem_data(made) # problem_data(Self) => exposes_no_result(made)


\* an objective with a monomial that is no variable of the program
objective_with_stranger ==
    [given |-> TRUE, terms |-> << <<<<"X_1">>, 1>>, <<<<"B_1">>, 1>> >>, direction |-> "max"]

\* what set_objective, set_bounds and set_values can make of the object
attempted_calls ==
    IF valJob.engine = "LP"
    THEN {lp_set_objective(valJob, Self, expr, expr.direction) :
                expr \in Objectives \cup {objective_with_stranger}}
         \cup {set_bounds(Self, bounds, bound_type) :
                bounds \in BoundDicts, bound_type \in {"up", "lo"}}
         \cup {lp_set_values(valJob, Self, values, lpi, only_specified_values) :
                values \in ValueDicts, lpi \in BOOLEAN, only_specified_values \in BOOLEAN}
    ELSE {set_objective(Self, expr, expr.direction) :
                expr \in Objectives \cup {objective_with_stranger}}
         \cup {set_values(valJob, Self, values, lpi, TRUE, TRUE, only_specified_values) :
                values \in ValueDicts, lpi \in BOOLEAN, only_specified_values \in BOOLEAN}

\* C28 as stated: a set_objective, set_bounds or set_values that ends in an
\* assertion failure or an exception leaves the objective, the bounds,
\* known_moments and its name dictionary as they were before the call.
C28_RejectedCallLeavesState ==
    \A made \in attempted_calls :
        made.raised # "" =>
            /\ made.objective = objective
            /\ made.moment_lowerbounds = moment_lowerbounds
            /\ made.moment_upperbounds = moment_upperbounds
            /\ made.known_moments = known_moments
            /\ made.known_moments_name_dict = known_moments_name_dict


-----------------------------------------------------------------------------
(* Knowability of the monomials of the symmetrised moment matrix            *)

\* an atomic factor with two operators of one party
repeats_a_party(atomic_monarray) ==
    \E i, j \in DOMAIN atomic_monarray : i # j /\ atomic_monarray[i][1] = atomic_monarray[j][1]

\* a test of knowability that looks at the copies only
is_knowable_by_copies(atomic_monarray) ==
    \A s \in 1..(Len(atomic_monarray[1]) - 3) :
        Cardinality({atomic_monarray[i][1 + s] : i \in DOMAIN atomic_monarray} \ {0}) <= 1

\* general_tools.is_knowable: the factor is a marginal of the observed
\* distribution, that is, no party comes twice and on every source the
\* operators fed by it hold the same copy
is_knowable(atomic_monarray) ==
    ~repeats_a_party(atomic_monarray) /\ is_knowable_by_copies(atomic_monarray)

\* InflationSDP.atomic_knowable_q of a network scenario (no split node)
atomic_knowable_q(atomic_monarray) ==
    IF ~is_knowable(atomic_monarray) THEN FALSE ELSE TRUE

\* CompoundMonomial.knowability_status, from the knowability of the factors
knowability_status(array2d) ==
    With(factorize_monomial(array2d), LAMBDA factors :
    With({i \in DOMAIN factors : ~atomic_knowable_q(factors[i])}, LAMBDA unknowable_factors :
        IF unknowable_factors = {} THEN "Yes"
        ELSE IF unknowable_factors = DOMAIN factors THEN "No"
        ELSE "Semi"))

\* the array of the monomial that generate_relaxation lists under an id of
\* the symmetrised matrix: the unit for 1, else the key of the least
\* unsymmetrised id mapped to it
monomial_of_idx(k) ==
    IF k = 1 THEN <<>>
    ELSE canonical_mon_to_idx[SetMin({u \in DOMAIN orbits : u >= 2 /\ orbits[u] = k}) - 1]

\* the ids of the symmetrised matrix with the given status, zero left out
ids_of_status(which) ==
    {k \in unique_values(symmetric_arr) \ {0} : knowability_status(monomial_of_idx(k)) = which}

\* C21: for the CHSH scenario with the generators of 'npa1' there are 5
\* generating monomials, and the symmetrised moment matrix holds 9 knowable
\* monomials, the unit among them, and 2 unknowable ones, the status of a
\* monomial being decided by its atomic factors.
C21_ChshCounts ==
    symScn = "CHSH" =>
        /\ Len(generating_monomials) = 5
        /\ sym_phase = "done" =>
              /\ Cardinality(ids_of_status("Yes")) = 9
              /\ 1 \in ids_of_status("Yes")
              /\ Cardinality(ids_of_status("No")) = 2
              /\ ids_of_status("Semi") = {}
              /\ 0 \notin unique_values(symmetric_arr)

C21_Witness ==
    /\ symScn = "CHSH"
    /\ sym_phase = "done"
    /\ ~commuting
    /\ Cardinality(unique_values(symmetric_arr)) = 11

-----------------------------------------------------------------------------
(* build_columns('physicalN') *)

\* the physical monomials of one party (0-based) with at most N operators
physical_choices(scn, party, N) ==
    {<<>>} \cup UNION {Range(phys_mon_1_party_of_given_len(scn, party, length)) :
                          length \in 1..N}

\* the canonical cartesian products of the choices of the parties
products_of_choices(scn, N) ==
    {to_canonical(FlattenSeq(choice)) :
        choice \in {f \in [1..nr_parties(scn) ->
                              UNION {physical_choices(scn, party - 1, N) :
                                        party \in 1..nr_parties(scn)}] :
                       \A party \in 1..nr_parties(scn) :
                           f[party] \in physical_choices(scn, party - 1, N)}}

\* C22 as stated: build_columns('physicalN') with one digit N not above the
\* smallest inflation level completes in every scenario, the line scenario
\* A-source-B-source-C included, and returns the canonical cartesian products
\* of the physical monomials of the parties with at most N operators each;
\* for B in the line scenario with N = 2 these are 5 choices.
C22_PhysicalColumnsComplete ==
    column_specification.style = "physical" =>
        /\ columns.raised = ""
        /\ columns.returned =>
              /\ Range(columns.cols)
                    = products_of_choices(scenario_of(colScn), column_specification.digits[1])
              /\ colScn = "Bilocal" =>
                    Cardinality({m \in Range(columns.cols) :
                                    \A k \in DOMAIN m : m[k][1] = 2}) = 5


(* ---- commuting InflationSDP: the routes that canonicalise a monomial ---- *)

\* _sanitise_monomial on a 2d array, as a function of the caches: self.Zero
\* or self.Monomial(canon)
sanitise_monomial(reg, array2d) ==
    With(sanitise_array(array2d), LAMBDA canon :
        IF canon.is_Zero THEN [reg |-> reg, mon |-> Zero]
        ELSE Monomial(sdp_problem(engJob), commuting, reg, canon.array, -1))

\* operators of the party B of the bilocal scenario that share the first copy
\* of the first source, and one operator of A
OrderedOperators ==
    {<<2, 1, 1, 0, 0>>, <<2, 1, 2, 0, 0>>, <<2, 1, 1, 0, 1>>, <<1, 1, 0, 0, 0>>}
        \cap Range(operators)

\* products of two of these operators, and of three operators of B
OrderedProducts ==
    [1..2 -> OrderedOperators] \cup [1..3 -> {op \in OrderedOperators : op[1] = 2}]

\* two orderings of the same operators
reordering(m, w) ==
    /\ Len(m) = Len(w)
    /\ \A op \in Range(m) \cup Range(w) :
          Cardinality({k \in DOMAIN m : m[k] = op}) = Cardinality({k \in DOMAIN w : w[k] = op})

\* the sanitiser gives one interned monomial to the two orderings, requested
\* one after the other
same_interned(m, w) ==
    With(sanitise_monomial(registry, m), LAMBDA first :
        sanitise_monomial(first.reg, w).mon = first.mon)

list_of_monomials_of(scn, comm, mm, known, symmetries) ==
    With(construct_sdp(scn, comm), LAMBDA built :
    With(apply_permutations(mm, symmetries), LAMBDA minimal :
    With(initial_orbits(mm, minimal), LAMBDA chains :
    With(follow_orbits(chains, 0), LAMBDA orb :
    With(unsym_idx_to_sym_idx(orb), LAMBDA sym_idx :
    With(flatnonzero({v \in Range(orb) : v >= 2}), LAMBDA old_representatives :
    With([n \in 1..Len(old_representatives) |->
             [k |-> sym_idx[old_representatives[n]],
              v |-> known[old_representatives[n] - 1]]], LAMBDA items :
    With([key \in (DOMAIN built.reg.canonsym) \cup Range(known) |->
             IF key \in Range(known) THEN known[orb[index_in(known, key) + 1] - 1]
             ELSE built.reg.canonsym[key]], LAMBDA canonsym :
    With(monomials_of_relaxation(scn, comm, [built.reg EXCEPT !.canonsym = canonsym],
                                 items, <<>>), LAMBDA made :
        [reg |-> made.reg,
         list_of_monomials |-> (IF 0 \in unique_values(mm) THEN <<built.Zero>> ELSE <<>>)
                               \o (IF 1 \in unique_values(mm) THEN <<built.One>> ELSE <<>>)
                               \o made.monomials])))))))))

\* the list of monomials of the object whose relaxation has been generated
list_of_monomials ==
    list_of_monomials_of(scenario_of(symScn), commuting, momentmatrix,
                         canonical_mon_to_idx, inflation_symmetries)

\* C29: after generation no two ids of the symmetrised moment matrix are
\* bound to the same compound monomial: the listed monomials are pairwise
\* distinct objects and every id of the matrix is the idx of exactly one of
\* them
C29_IdsBindDistinctMonomials ==
    sym_phase = "done" =>
        With(list_of_monomials, LAMBDA made :
            /\ \A n, q \in DOMAIN made.list_of_monomials :
                  n # q => made.list_of_monomials[n] # made.list_of_monomials[q]
            /\ \A id \in unique_values(symmetric_arr) :
                  Cardinality({n \in DOMAIN made.list_of_monomials :
                                 made.reg.moms[made.list_of_monomials[n]].idx = id}) = 1)


-----------------------------------------------------------------------------
(* Specification SpecOrbits: _apply_inflation_symmetries on a given moment   *)
(* matrix and a given list of permutations of the generating monomials, the  *)
(* loop that follows the orbits taken one turn at a time                     *)

\* sizes of the moment matrices given, and the ids they may hold
MatrixSizes == 2..3
MatrixIds == 0..3

\* the symmetric matrices of a size whose ids are a dense range from 0 or 1;
\* the first generating monomial is the identity, its square the unit, id 1
DenseMatrices(n) ==
    {mm \in [1..n -> [1..n -> MatrixIds]] :
        /\ mm[1][1] = 1
        /\ \A i, j \in 1..n : mm[i][j] = mm[j][i]
        /\ \A v \in MatrixIds :
              (v >= 1 /\ v < SetMax(unique_values(mm))) => v \in unique_values(mm)}

\* the lists of permutations as np.unique(..., axis=0) returns them: sorted,
\* without repetition; a symmetry sends the identity to itself
PermutationLists(n) ==
    With({p \in Permutations_of(n) : p[1] = 1}, LAMBDA fixing :
        {<<>>} \cup {<<p>> : p \in fixing}
               \cup {<<r[1], r[2]>> : r \in {pq \in fixing \X fixing : LexLess(pq[1], pq[2])}})

notOrbits == <<rwVars, colVars, engVars, ineqVars, valVars>>

InitOrbits ==
    /\ commuting = FALSE
    /\ symScn = "none"
    /\ generating_monomials = <<>>
    /\ canonical_mon_to_idx = <<>>
    /\ entry = <<0, 0>>
    /\ \E n \in MatrixSizes :
          /\ momentmatrix \in DenseMatrices(n)
          /\ inflation_symmetries \in PermutationLists(n)
    /\ symmetric_arr = momentmatrix
    /\ next_perm = 1
    /\ orbits = <<>>
    /\ sym_phase = "apply"
    /\ orbit_loop = [at |-> "permutations", key |-> 0, val |-> 0, previous |-> 0,
                     changed |-> FALSE]
    /\ orbit_result = [raised |-> ""]
    /\ IdleRw /\ IdleCol /\ IdleEng /\ IdleIneq /\ IdleVal

\* orbits = np.concatenate((absent_indices, symmetric_arr.flat[where_it_matters_flat]))
InitialOrbits ==
    /\ orbit_loop.at = "permutations"
    /\ next_perm > Len(inflation_symmetries)
    /\ orbits' = initial_orbits(momentmatrix, symmetric_arr)
    /\ orbit_loop' = [orbit_loop EXCEPT !.at = "for"]
    /\ sym_phase' = "orbits"
    /\ UNCHANGED <<commuting, symScn, generating_monomials, momentmatrix,
                   canonical_mon_to_idx, entry, inflation_symmetries, next_perm,
                   symmetric_arr, orbit_result, notOrbits>>

\* for key, val in enumerate(orbits): previous = 0; changed = True
ForKey ==
    /\ orbit_loop.at = "for"
    /\ orbit_loop.key \in DOMAIN orbits
    /\ orbit_loop' = [at |-> "while", key |-> orbit_loop.key, val |-> orbits[orbit_loop.key],
                      previous |-> 0, changed |-> TRUE]
    /\ UNCHANGED <<commuting, symVars, orbit_result, notOrbits>>

\* one turn of "while changed": val = orbits[val], compared with previous; an
\* index outside the array raises IndexError, which the except clause for
\* KeyError does not catch
WhileTurn ==
    /\ orbit_loop.at = "while"
    /\ orbit_loop.changed
    /\ IF orbit_loop.val \in DOMAIN orbits
       THEN /\ orbit_loop' =
                  IF orbits[orbit_loop.val] = orbit_loop.previous
                  THEN [orbit_loop EXCEPT !.val = orbits[orbit_loop.val], !.changed = FALSE]
                  ELSE [orbit_loop EXCEPT !.val = orbits[orbit_loop.val],
                                          !.previous = orbits[orbit_loop.val]]
            /\ UNCHANGED orbit_result
       ELSE /\ orbit_loop' = [orbit_loop EXCEPT !.at = "raised"]
            /\ orbit_result' = [raised |-> "IndexError"]
    /\ UNCHANGED <<commuting, symVars, notOrbits>>

\* the loop without its last line: the followed value is dropped
StoreNothing ==
    /\ orbit_loop.at = "while"
    /\ ~orbit_loop.changed
    /\ orbit_loop' = [orbit_loop EXCEPT !.at = "for", !.key = orbit_loop.key + 1]
    /\ UNCHANGED <<commuting, symVars, orbit_result, notOrbits>>

\* orbits[key] = val, and the next key
StoreRepresentative ==
    /\ orbit_loop.at = "while"
    /\ ~orbit_loop.changed
    /\ orbits' = [k \in DOMAIN orbits |-> IF k = orbit_loop.key THEN orbit_loop.val
                                          ELSE orbits[k]]
    /\ orbit_loop' = [orbit_loop EXCEPT !.at = "for", !.key = orbit_loop.key + 1]
    /\ UNCHANGED <<commuting, symScn, generating_monomials, momentmatrix,
                   canonical_mon_to_idx, entry, inflation_symmetries, next_perm,
                   symmetric_arr, sym_phase, orbit_result, notOrbits>>

\* np.unique(orbits, return_index=True, return_inverse=True)
np_unique(orb) ==
    With(flatnonzero(Range(orb)), LAMBDA values :
        [values |-> values,
         index |-> [n \in DOMAIN values |-> SetMin({k \in DOMAIN orb : orb[k] = values[n]})],
         inverse |-> unsym_idx_to_sym_idx(orb)])

\* the end of _apply_inflation_symmetries: np.unique, the assertion, and the
\* matrix of the new ids
EmitSymmetricArr ==
    /\ orbit_loop.at = "for"
    /\ orbit_loop.key \notin DOMAIN orbits
    /\ \E unique \in {np_unique(orbits)} :
          IF unique.values = unique.index
          THEN /\ symmetric_arr' = [i \in DOMAIN momentmatrix |-> [j \in DOMAIN momentmatrix |->
                                       unique.inverse[momentmatrix[i][j]]]]
               /\ orbit_result' = [raised |-> "",
                                   old_representative_indices |-> unique.values,
                                   unsym_idx_to_sym_idx |-> unique.inverse]
               /\ orbit_loop' = [orbit_loop EXCEPT !.at = "done"]
          ELSE /\ symmetric_arr' = symmetric_arr
               /\ orbit_result' = [raised |-> "AssertionError"]
               /\ orbit_loop' = [orbit_loop EXCEPT !.at = "raised"]
    /\ sym_phase' = "done"
    /\ UNCHANGED <<commuting, symScn, generating_monomials, momentmatrix,
                   canonical_mon_to_idx, entry, inflation_symmetries, next_perm,
                   orbits, notOrbits>>

NextOrbits ==
    \/ ApplyPermutation
    \/ InitialOrbits
    \/ ForKey
    \/ WhileTurn
    \/ StoreRepresentative
    \/ EmitSymmetricArr

SpecOrbits == InitOrbits /\ [][NextOrbits]_vars

\* the loops are run to their end: every enabled step is eventually taken
SpecOrbitsFair == SpecOrbits /\ WF_vars(NextOrbits)

\* the orbit map before the loop over it, from the state after the permutations
orbits_before ==
    With(apply_permutations(momentmatrix, inflation_symmetries), LAMBDA arr :
        initial_orbits(momentmatrix, arr))

\* no IndexError in the loop and no AssertionError after it
NeverRaised == orbit_result.raised = ""

\* after the loop every id is sent to a representative that is its own
\* representative and is not larger than the id
OrbitsIdempotent ==
    orbit_loop.at = "done" =>
        \A k \in DOMAIN orbits : orbits[orbits[k]] = orbits[k] /\ orbits[k] <= k

\* the ids of the matrix returned are 0..r-1 (1..r-1 when no entry is zero), r
\* the number of representatives
EmittedIdsDense ==
    orbit_loop.at = "done" =>
        With(Len(orbit_result.old_representative_indices), LAMBDA r :
            unique_values(symmetric_arr) \in {0..(r - 1), 1..(r - 1)})

\* the new ids of 0 and 1 are 0 and 1: a zero entry stays 0, the unit stays 1
ZeroAndUnitKept ==
    orbit_loop.at = "done" =>
        /\ orbit_result.unsym_idx_to_sym_idx[0] = 0
        /\ orbit_result.unsym_idx_to_sym_idx[1] = 1
        /\ symmetric_arr[1][1] = 1
        /\ \A i, j \in DOMAIN momentmatrix : momentmatrix[i][j] = 0 => symmetric_arr[i][j] = 0

\* C30: for every symmetric moment matrix with the dense ids 0..n-1 or 1..n-1
\* and every list of permutations of the generating monomials, the loop that
\* follows the orbits comes to its end and the call returns; it raises neither
\* in the loop nor at the assertion on np.unique(orbits); when it has returned,
\* orbits[orbits[k]] = orbits[k] and orbits[k] <= k for every id k, the ids of
\* the matrix returned are the dense range 0..r-1 (or 1..r-1), and 0 and 1 are
\* still the ids of zero and of the unit
C30_OrbitLoopEndsAtRepresentatives ==
    /\ <>(orbit_loop.at = "done")
    /\ [](NeverRaised /\ OrbitsIdempotent /\ EmittedIdsDense /\ ZeroAndUnitKept)

\* a call that has returned in which the loop had to follow an id over two
\* steps: its entry before the loop was not yet its representative
C30_Witness ==
    /\ orbit_loop.at = "done"
    /\ \E k \in DOMAIN orbits :
          /\ orbits_before[k] # orbits[k]
          /\ orbits[k] = orbits_before[orbits_before[k]]

=============================================================================
